---- MODULE Spec2Model ----
(***************************************************************************)
(* A model of the Packmol integration of MolSAIC                           *)
(* (src/src/external_tools/packmol.py): the dialect parser and generator,  *)
(* the deep-merge updater and the external tool runner protocol            *)
(* (validate, stage, build command, execute, process output).              *)
(*                                                                         *)
(* Python values are modelled as tagged records (PyStr, PyList, PyDict,    *)
(* PyNone).  A Python str is a sequence of items: an item is either one    *)
(* blank (" ") or one word (a maximal run of non-blank characters).  A     *)
(* text file is the sequence of its lines.  A dict is the sequence of its  *)
(* (key, value) pairs in insertion order.                                  *)
(***************************************************************************)
EXTENDS Integers, Sequences, FiniteSets, TLC

(***************************************************************************)
(* Bounds of the model.                                                    *)
(***************************************************************************)
MaxLines == 3

(***************************************************************************)
(* Strings.                                                                *)
(***************************************************************************)
SP == " "

\* str.lower() on one word: the words of the model that hold upper-case letters.
LowerWord(w) ==
    CASE w = "STRUCTURE" -> "structure"
      [] w = "Structure" -> "structure"
      [] w = "End"       -> "end"
      [] w = "END"       -> "end"
      [] w = "Atoms"     -> "atoms"
      [] w = "INSIDE"    -> "inside"
      [] w = "Outside"   -> "outside"
      [] w = "Output"    -> "output"
      [] w = "Number"    -> "number"
      [] w = "Timed"     -> "timed"
      [] w = "Out"       -> "out"
      [] OTHER           -> w

\* str.lower()
Lower(s) == [i \in 1..Len(s) |-> LowerWord(s[i])]

RECURSIVE LStrip(_)
LStrip(s) == IF s # <<>> /\ Head(s) = SP THEN LStrip(Tail(s)) ELSE s

RECURSIVE RStrip(_)
RStrip(s) ==
    IF s # <<>> /\ s[Len(s)] = SP THEN RStrip(SubSeq(s, 1, Len(s) - 1)) ELSE s

\* str.strip()
Strip(s) == RStrip(LStrip(s))

\* str.split(): the words of s, as strings
RECURSIVE Split(_)
Split(s) ==
    IF s = <<>> THEN <<>>
    ELSE IF Head(s) = SP THEN Split(Tail(s))
    ELSE <<<<Head(s)>>>> \o Split(Tail(s))

\* sep.join(strs) with sep = " "
RECURSIVE Join(_)
Join(strs) ==
    IF strs = <<>> THEN <<>>
    ELSE IF Len(strs) = 1 THEN strs[1]
    ELSE strs[1] \o <<SP>> \o Join(Tail(strs))

\* sub in s
Contains(s, sub) ==
    \E i \in 0..(Len(s) - Len(sub)) : SubSeq(s, i + 1, i + Len(sub)) = sub

\* words that start with "#"
HashWords == {"#", "#c"}
\* words whose lower-case form starts with "atoms"
AtomsWords == {"atoms", "atomsel"}

\* s.startswith("#")
StartsWithHash(s) == s # <<>> /\ s[1] \in HashWords
\* s.lower().startswith("atoms")
LowerStartsWithAtoms(s) == s # <<>> /\ LowerWord(s[1]) \in AtomsWords
\* re.match(r"^structure\s+", s, re.IGNORECASE)
MatchesStructure(s) == Len(s) >= 2 /\ LowerWord(s[1]) = "structure" /\ s[2] = SP

(***************************************************************************)
(* Python values.                                                          *)
(***************************************************************************)
PyNone == [t |-> "none", s |-> <<>>, items |-> <<>>, kv |-> <<>>]
PyStr(s) == [t |-> "str", s |-> s, items |-> <<>>, kv |-> <<>>]
PyList(xs) == [t |-> "list", s |-> <<>>, items |-> xs, kv |-> <<>>]
PyDict(kv) == [t |-> "dict", s |-> <<>>, items |-> <<>>, kv |-> kv]

IsDict(x) == x.t = "dict"
EmptyDict == PyDict(<<>>)
EmptyList == PyList(<<>>)

\* the list of the str values of a sequence of strings
StrList(strs) == PyList([i \in 1..Len(strs) |-> PyStr(strs[i])])
\* the strings of a list of str values
Strs(lst) == [i \in 1..Len(lst.items) |-> lst.items[i].s]

Keys(d) == {d.kv[i].k : i \in 1..Len(d.kv)}
\* key in d
HasKey(d, k) == k \in Keys(d)
KeyIndex(d, k) == CHOOSE i \in 1..Len(d.kv) : d.kv[i].k = k
\* d.get(k, default)
Get(d, k, default) == IF HasKey(d, k) THEN d.kv[KeyIndex(d, k)].v ELSE default
\* d[k] = v : an existing key keeps its position, a new key is appended
DictSet(d, k, v) ==
    IF HasKey(d, k)
    THEN PyDict([d.kv EXCEPT ![KeyIndex(d, k)] = [k |-> k, v |-> v]])
    ELSE PyDict(Append(d.kv, [k |-> k, v |-> v]))
\* lst.append(x)
ListAppend(lst, x) == PyList(Append(lst.items, x))

\* Python's == on values: dicts compare as mappings (insertion order is ignored),
\* lists and strings compare element by element.
RECURSIVE PyEq(_, _)
PyEq(a, b) ==
    IF a.t # b.t THEN FALSE
    ELSE IF a.t = "dict" THEN
        /\ Keys(a) = Keys(b)
        /\ \A k \in Keys(a) : PyEq(Get(a, k, PyNone), Get(b, k, PyNone))
    ELSE IF a.t = "list" THEN
        /\ Len(a.items) = Len(b.items)
        /\ \A i \in 1..Len(a.items) : PyEq(a.items[i], b.items[i])
    ELSE a.s = b.s

(***************************************************************************)
(* Exceptions: an operation that can raise returns [err, val]; err = NoErr *)
(* when it returned val.                                                   *)
(***************************************************************************)
NoErr == "none"
Ok(v) == [err |-> NoErr, val |-> v]
Raise(e) == [err |-> e, val |-> PyNone]

(***************************************************************************)
(* PackmolTool.parse_packmol_file                                          *)
(***************************************************************************)
\* lines = [line.strip() for line in lines
\*          if line.strip() and not line.strip().startswith("#")]
RECURSIVE FilterLines(_)
FilterLines(lines) ==
    IF lines = <<>> THEN <<>>
    ELSE LET l == Strip(Head(lines)) IN
         IF l # <<>> /\ ~StartsWithHash(l)
         THEN <<l>> \o FilterLines(Tail(lines))
         ELSE FilterLines(Tail(lines))

\* the first loop: global lines until the first "structure" line.
\* Returns [i, g]: the index where the loop stopped, the global options.
RECURSIVE ParseGlobals(_, _, _)
ParseGlobals(lines, i, g) ==
    IF i > Len(lines) THEN [i |-> i, g |-> g]
    ELSE IF MatchesStructure(lines[i]) THEN [i |-> i, g |-> g]
    ELSE LET tokens == Split(lines[i]) IN
         ParseGlobals(lines, i + 1,
             IF tokens # <<>>
             THEN DictSet(g, tokens[1][1], StrList(Tail(tokens)))
             ELSE g)

\* the loop over the raw lines of an "atoms" block, until "end atoms".
\* Returns [i, nested].
RECURSIVE ParseAtoms(_, _, _)
ParseAtoms(lines, i, nested) ==
    IF i > Len(lines) THEN [i |-> i, nested |-> nested]
    ELSE IF Lower(lines[i]) = <<"end", SP, "atoms">> THEN [i |-> i, nested |-> nested]
    ELSE ParseAtoms(lines, i + 1, ListAppend(nested, PyStr(lines[i])))

\* every line of a block taken for a property line
ParseInnerLine_AllProperties(blk, inner_line) ==
    LET tokens_inner == Split(inner_line) IN
    DictSet(blk, "properties",
        DictSet(Get(blk, "properties", EmptyDict), tokens_inner[1][1],
                StrList(Tail(tokens_inner))))

\* a property line that keeps the first value stored for its key
ParseInnerLine_FirstWins(blk, inner_line) ==
    LET tokens_inner == Split(inner_line)
        key_inner == tokens_inner[1][1]
        properties == Get(blk, "properties", EmptyDict)
    IN IF LowerWord(key_inner) \in {"inside", "outside"} THEN
           IF Len(tokens_inner) >= 2 THEN
               DictSet(blk, "constraints",
                   ListAppend(Get(blk, "constraints", EmptyList),
                       PyDict(<<[k |-> "keyword", v |-> PyStr(<<key_inner>>)],
                                [k |-> "block", v |-> PyStr(tokens_inner[2])],
                                [k |-> "params",
                                 v |-> StrList(SubSeq(tokens_inner, 3, Len(tokens_inner)))]>>)))
           ELSE DictSet(blk, "others",
                   ListAppend(Get(blk, "others", EmptyList), PyStr(inner_line)))
       ELSE IF HasKey(properties, key_inner) THEN blk
       ELSE DictSet(blk, "properties",
                DictSet(properties, key_inner, StrList(Tail(tokens_inner))))

\* one line of a structure block that opens no atoms block
ParseInnerLine(blk, inner_line) ==
    LET tokens_inner == Split(inner_line) IN
    IF tokens_inner # <<>> THEN
        LET key_inner == tokens_inner[1][1] IN
        IF LowerWord(key_inner) \in {"inside", "outside"} THEN
            IF Len(tokens_inner) >= 2 THEN
                DictSet(blk, "constraints",
                    ListAppend(Get(blk, "constraints", EmptyList),
                        PyDict(<<[k |-> "keyword", v |-> PyStr(<<key_inner>>)],
                                 [k |-> "block", v |-> PyStr(tokens_inner[2])],
                                 [k |-> "params",
                                  v |-> StrList(SubSeq(tokens_inner, 3, Len(tokens_inner)))]>>)))
            ELSE DictSet(blk, "others",
                    ListAppend(Get(blk, "others", EmptyList), PyStr(inner_line)))
        ELSE DictSet(blk, "properties",
                DictSet(Get(blk, "properties", EmptyDict), key_inner,
                        StrList(Tail(tokens_inner))))
    ELSE DictSet(blk, "others",
            ListAppend(Get(blk, "others", EmptyList), PyStr(inner_line)))

\* the loop over the lines of a structure block, until "end structure".
\* Returns [i, blk].
RECURSIVE ParseBlock(_, _, _)
ParseBlock(lines, i, blk) ==
    IF i > Len(lines) THEN [i |-> i, blk |-> blk]
    ELSE IF Lower(lines[i]) = <<"end", SP, "structure">> THEN [i |-> i, blk |-> blk]
    ELSE IF LowerStartsWithAtoms(lines[i]) THEN
        LET r == ParseAtoms(lines, i + 1, EmptyList)
            atoms_data == PyDict(<<[k |-> "atoms", v |-> StrList(Tail(Split(lines[i])))],
                                   [k |-> "constraints", v |-> r.nested]>>)
        IN ParseBlock(lines, r.i + 1,
               DictSet(blk, "constraints",
                   ListAppend(Get(blk, "constraints", EmptyList),
                       PyDict(<<[k |-> "keyword", v |-> PyStr(<<"atoms">>)],
                                [k |-> "data", v |-> atoms_data]>>))))
    ELSE ParseBlock(lines, i + 1, ParseInnerLine(blk, lines[i]))

NewStructBlock(file) ==
    PyDict(<<[k |-> "structure_file", v |-> PyStr(file)],
             [k |-> "properties", v |-> EmptyDict],
             [k |-> "constraints", v |-> EmptyList],
             [k |-> "others", v |-> EmptyList]>>)

\* a parser that rejects a block the end of the input leaves open
RECURSIVE ParseStructures_Strict(_, _, _)
ParseStructures_Strict(lines, i, structs) ==
    IF i > Len(lines) THEN Ok(structs)
    ELSE IF MatchesStructure(lines[i]) THEN
        LET r == ParseBlock(lines, i + 1, NewStructBlock(Split(lines[i])[2])) IN
        IF r.i > Len(lines) THEN Raise("ValueError")
        ELSE ParseStructures_Strict(lines, r.i + 1, ListAppend(structs, r.blk))
    ELSE ParseStructures_Strict(lines, i + 1, structs)

\* the second loop: the structure blocks.  Returns [err, val]: val the list of
\* structure blocks.
RECURSIVE ParseStructures(_, _, _)
ParseStructures(lines, i, structs) ==
    IF i > Len(lines) THEN Ok(structs)
    ELSE IF MatchesStructure(lines[i]) THEN
        LET tokens == Split(lines[i]) IN
        IF Len(tokens) < 2 THEN Raise("ValueError")
        ELSE LET r == ParseBlock(lines, i + 1, NewStructBlock(tokens[2])) IN
             ParseStructures(lines, r.i + 1, ListAppend(structs, r.blk))
    ELSE ParseStructures(lines, i + 1, structs)

\* parse_packmol_file on the content of the file: [err, val], val the config
ParsePackmolText(text) ==
    LET lines == FilterLines(text)
        g == ParseGlobals(lines, 1, EmptyDict)
        s == ParseStructures(lines, g.i, EmptyList)
    IN IF s.err # NoErr THEN Raise(s.err)
       ELSE Ok(PyDict(<<[k |-> "global", v |-> g.g],
                        [k |-> "structures", v |-> s.val]>>))

(***************************************************************************)
(* PackmolTool.generate_packmol_file                                       *)
(***************************************************************************)
\* key + " " + " ".join(tokens), after the indentation `indent`
KeyLine(indent, key, tokens) == indent \o <<key, SP>> \o Join(Strs(tokens))

RECURSIVE GenDictLines(_, _, _)
GenDictLines(indent, kv, i) ==
    IF i > Len(kv) THEN <<>>
    ELSE <<KeyLine(indent, kv[i].k, kv[i].v)>> \o GenDictLines(indent, kv, i + 1)

RECURSIVE GenRawLines(_, _, _)
GenRawLines(indent, items, i) ==
    IF i > Len(items) THEN <<>>
    ELSE <<indent \o items[i].s>> \o GenRawLines(indent, items, i + 1)

GenConstraint(c) ==
    IF Lower(Get(c, "keyword", PyNone).s) = <<"atoms">> THEN
        LET data == Get(c, "data", PyNone) IN
        <<<<SP, SP, "atoms", SP>> \o Join(Strs(Get(data, "atoms", EmptyList)))>>
        \o GenRawLines(<<SP, SP, SP, SP>>, Get(data, "constraints", EmptyList).items, 1)
        \o <<<<SP, SP, "end", SP, "atoms">>>>
    ELSE IF HasKey(c, "block") THEN
        <<<<SP, SP>> \o Get(c, "keyword", PyNone).s \o <<SP>> \o Get(c, "block", PyNone).s
          \o <<SP>> \o Join(Strs(Get(c, "params", EmptyList)))>>
    ELSE
        <<<<SP, SP>> \o Get(c, "keyword", PyNone).s
          \o <<SP>> \o Join(Strs(Get(c, "params", EmptyList)))>>

RECURSIVE GenConstraints(_, _)
GenConstraints(items, i) ==
    IF i > Len(items) THEN <<>>
    ELSE GenConstraint(items[i]) \o GenConstraints(items, i + 1)

GenStruct(struct) ==
    <<<<"structure", SP>> \o Get(struct, "structure_file", PyStr(<<>>)).s>>
    \o GenDictLines(<<SP, SP>>, Get(struct, "properties", EmptyDict).kv, 1)
    \o GenConstraints(Get(struct, "constraints", EmptyList).items, 1)
    \o GenRawLines(<<SP, SP>>, Get(struct, "others", EmptyList).items, 1)
    \o <<<<"end", SP, "structure">>, <<>>>>

RECURSIVE GenStructs(_, _)
GenStructs(items, i) ==
    IF i > Len(items) THEN <<>>
    ELSE GenStruct(items[i]) \o GenStructs(items, i + 1)

\* the content generate_packmol_file writes for config
GeneratePackmolText(config) ==
    GenDictLines(<<>>, Get(config, "global", EmptyDict).kv, 1)
    \o <<<<>>>>
    \o GenStructs(Get(config, "structures", EmptyList).items, 1)

(***************************************************************************)
(* PackmolTool.update_dict                                                 *)
(***************************************************************************)
\* for key, value in updates.items(): ...  from the i-th pair of updates on.
\* orig is updated in place and returned: the value is what orig then holds.
RECURSIVE UpdateFrom(_, _, _)
UpdateFrom(orig, updates, i) ==
    IF i > Len(updates.kv) THEN orig
    ELSE LET key == updates.kv[i].k
             value == updates.kv[i].v
         IN IF HasKey(orig, key) /\ IsDict(Get(orig, key, PyNone)) /\ IsDict(value)
            THEN UpdateFrom(
                     DictSet(orig, key, UpdateFrom(Get(orig, key, PyNone), value, 1)),
                     updates, i + 1)
            ELSE UpdateFrom(DictSet(orig, key, value), updates, i + 1)

\* a merge that never recurses: every key of updates replaces the key of orig
RECURSIVE ShallowFrom(_, _, _)
ShallowFrom(orig, updates, i) ==
    IF i > Len(updates.kv) THEN orig
    ELSE ShallowFrom(DictSet(orig, updates.kv[i].k, updates.kv[i].v), updates, i + 1)

UpdateDict_Shallow(orig, updates) == ShallowFrom(orig, updates, 1)

UpdateDict(orig, updates) == UpdateFrom(orig, updates, 1)

(***************************************************************************)
(* The file system.  A path is [dir, base]: dir = "" for a bare file name, *)
(* which the operating system resolves in the current working directory.  *)
(* A file is [e, d]: whether it exists, and the lines it holds.            *)
(***************************************************************************)
Cwd == "/cwd"
Dirs == {"/cwd", "/in", "/ws", "/x"}
BaseNames ==
    {"test.inp", "gen.inp", "packmol.inp", "a.pdb", "b.pdb", "out.pdb", "other.pdb"}
FsPaths == [dir : Dirs, base : BaseNames]

NoPath == [dir |-> "", base |-> ""]
NoFile == [e |-> FALSE, d |-> <<>>]
FileOf(d) == [e |-> TRUE, d |-> d]

\* the words of the model that are absolute paths: their directory and base name
WordDir(w) ==
    CASE w = "/x/a.pdb"   -> "/x"
      [] w = "/x/b.pdb"   -> "/x"
      [] w = "/x/out.pdb" -> "/x"
      [] OTHER            -> ""
WordBase(w) ==
    CASE w = "/x/a.pdb"   -> "a.pdb"
      [] w = "/x/b.pdb"   -> "b.pdb"
      [] w = "/x/out.pdb" -> "out.pdb"
      [] OTHER            -> w

\* the path a one-word string names
PathOf(str) == [dir |-> WordDir(str[1]), base |-> WordBase(str[1])]
\* os.path.isabs
IsAbs(p) == p.dir # ""
\* os.path.abspath
AbsPath(p) == IF IsAbs(p) THEN p ELSE [dir |-> Cwd, base |-> p.base]
\* os.path.join(directory, p): an absolute p discards the directory
JoinPath(directory, p) == IF IsAbs(p) THEN p ELSE [dir |-> directory, base |-> p.base]
\* os.path.isfile
IsFile(fs, p) == AbsPath(p) \in DOMAIN fs /\ fs[AbsPath(p)].e
\* os.path.getsize
GetSize(fs, p) == Len(fs[AbsPath(p)].d)
\* open(p, "w"); write(d)
WriteFile(fs, p, d) == [fs EXCEPT ![AbsPath(p)] = FileOf(d)]
\* with open(src, 'rb') as src, open(dst, 'wb') as dst: dst.write(src.read())
\* opening dst truncates it before src is read
CopyFile(fs, src, dst) ==
    LET truncated == WriteFile(fs, dst, <<>>)
    IN WriteFile(truncated, dst, truncated[AbsPath(src)].d)

(***************************************************************************)
(* Exceptions of the runner: [kind, msg], msg the strings the message is   *)
(* made of.                                                                *)
(***************************************************************************)
NoError == [kind |-> "none", msg |-> <<>>]
Error(kind, msg) == [kind |-> kind, msg |-> msg]

(***************************************************************************)
(* PackmolTool.validate_inputs                                             *)
(***************************************************************************)
\* validate_inputs without its last check (config_dict must be a dictionary)
ValidateInputs_NoConfigCheck(fs, input_file, config_dict, update_dict) ==
    IF input_file = NoPath /\ config_dict = PyNone
    THEN Error("ValueError", <<<<"Either input_file or config_dict must be provided">>>>)
    ELSE IF input_file # NoPath /\ ~IsFile(fs, input_file)
    THEN Error("ValueError", <<<<"Input file not found:">>, <<input_file.base>>>>)
    ELSE IF update_dict # PyNone /\ ~IsDict(update_dict)
    THEN Error("ValueError", <<<<"update_dict must be a dictionary">>>>)
    ELSE NoError

\* the exception validate_inputs raises, NoError when it returns
ValidateInputs(fs, input_file, config_dict, update_dict) ==
    IF input_file = NoPath /\ config_dict = PyNone
    THEN Error("ValueError", <<<<"Either input_file or config_dict must be provided">>>>)
    ELSE IF input_file # NoPath /\ ~IsFile(fs, input_file)
    THEN Error("ValueError", <<<<"Input file not found:">>, <<input_file.base>>>>)
    ELSE IF update_dict # PyNone /\ ~IsDict(update_dict)
    THEN Error("ValueError", <<<<"update_dict must be a dictionary">>>>)
    ELSE IF config_dict # PyNone /\ ~IsDict(config_dict)
    THEN Error("ValueError", <<<<"config_dict must be a dictionary">>>>)
    ELSE NoError

(***************************************************************************)
(* PackmolTool.prepare_inputs                                              *)
(***************************************************************************)
\* a file written where the caller's path points, not in the workspace
WorkspaceFile_InPlace(workspace_path, p) == AbsPath(p)

\* os.path.join(workspace_path, os.path.basename(p))
WorkspaceFile(workspace_path, p) == [dir |-> workspace_path, base |-> p.base]

\* the first of the locations that is a file, NoPath when none is
RECURSIVE FirstFile(_, _, _)
FirstFile(fs, locations, i) ==
    IF i > Len(locations) THEN NoPath
    ELSE IF IsFile(fs, locations[i]) THEN locations[i]
    ELSE FirstFile(fs, locations, i + 1)

\* search_locations of one structure file
SearchLocations(structure_file, search_dirs) ==
    <<PathOf(structure_file)>>
    \o [j \in 1..Len(search_dirs) |->
            [dir |-> search_dirs[j], base |-> PathOf(structure_file).base]]

\* a block whose structure_file is left as the caller gave it
StagedBlock_AsGiven(struct, found_file) == struct

\* struct['structure_file'] = os.path.basename(found_file)
StagedBlock(struct, found_file) ==
    DictSet(struct, "structure_file", PyStr(<<found_file.base>>))

\* the loop over the structure blocks, from block i on.  st is
\* [fs, structs, structure_files, missing]; the blocks are updated in place.
RECURSIVE StageStructures(_, _, _, _)
StageStructures(st, i, search_dirs, workspace_path) ==
    IF i > Len(st.structs) THEN st
    ELSE LET struct == st.structs[i]
             structure_file == Get(struct, "structure_file", PyNone)
         IN IF structure_file = PyNone \/ structure_file.s = <<>>
            THEN StageStructures(st, i + 1, search_dirs, workspace_path)
            ELSE LET found_file ==
                         FirstFile(st.fs, SearchLocations(structure_file.s, search_dirs), 1)
                     workspace_structure_file == WorkspaceFile(workspace_path, found_file)
                 IN IF found_file # NoPath
                    THEN StageStructures(
                            [fs |-> CopyFile(st.fs, found_file, workspace_structure_file),
                             structs |-> [st.structs EXCEPT ![i] =
                                 StagedBlock(struct, found_file)],
                             structure_files |->
                                 Append(st.structure_files, workspace_structure_file),
                             missing |-> st.missing],
                            i + 1, search_dirs, workspace_path)
                    ELSE StageStructures(
                            [st EXCEPT !.missing = Append(@, structure_file.s)],
                            i + 1, search_dirs, workspace_path)

\* the directories searched after the path as given
SearchDirs(has_input, workspace_path) ==
    LET input_file_dir == workspace_path
    IN <<Cwd>> \o (IF has_input /\ input_file_dir # Cwd THEN <<input_file_dir>> ELSE <<>>)

\* prepare_inputs: [fs, info], the file system it leaves and input_info.
\* Keys that input_info does not hold are NoPath.
PrepareInputs(fs, workspace_path, input_file, output_file, config_dict, update_dict) ==
    LET has_input == input_file # NoPath
        workspace_input_file == WorkspaceFile(workspace_path, input_file)
        fs1 == IF has_input THEN CopyFile(fs, input_file, workspace_input_file) ELSE fs
        config1 == IF has_input
                   THEN ParsePackmolText(fs1[workspace_input_file].d).val
                   ELSE config_dict
        config2 == IF update_dict # PyNone THEN UpdateDict(config1, update_dict)
                   ELSE config1
        generate == output_file # NoPath \/ update_dict # PyNone
        workspace_output_file ==
            WorkspaceFile(workspace_path,
                          IF output_file = NoPath THEN [dir |-> "", base |-> "packmol.inp"]
                          ELSE output_file)
        fs2 == IF generate
               THEN WriteFile(fs1, workspace_output_file, GeneratePackmolText(config2))
               ELSE fs1
        st == StageStructures(
                  [fs |-> fs2,
                   structs |-> Get(config2, "structures", EmptyList).items,
                   structure_files |-> <<>>,
                   missing |-> <<>>],
                  1, SearchDirs(has_input, workspace_path), workspace_path)
        config3 == IF HasKey(config2, "structures")
                   THEN DictSet(config2, "structures", PyList(st.structs))
                   ELSE config2
    IN [fs |-> st.fs,
        info |-> [workspace_path |-> workspace_path,
                  input_file |-> IF has_input THEN workspace_input_file ELSE NoPath,
                  config |-> config3,
                  output_file |-> IF generate THEN workspace_output_file ELSE NoPath,
                  structure_files |-> st.structure_files,
                  missing_structure_files |-> st.missing,
                  final_input_file |-> NoPath,
                  stdin_file |-> NoPath]]

(***************************************************************************)
(* PackmolTool.build_command                                               *)
(***************************************************************************)
\* what build_command does when no structure file is missing
SelectInput(fs, info, has_timeout, timeout) ==
    LET generated == [dir |-> info.workspace_path, base |-> "packmol.inp"]
             generate == info.output_file = NoPath /\ info.input_file = NoPath
             input_file == IF info.output_file # NoPath THEN info.output_file
                           ELSE IF info.input_file # NoPath THEN info.input_file
                           ELSE generated
         IN [err |-> NoError,
             cmd |-> <<"packmol">>
                     \o (IF has_timeout THEN <<"-t", ToString(timeout)>> ELSE <<>>),
             info |-> [info EXCEPT
                          !.output_file = IF generate THEN generated ELSE @,
                          !.final_input_file = input_file,
                          !.stdin_file = input_file],
             fs |-> IF generate
                    THEN WriteFile(fs, generated, GeneratePackmolText(info.config))
                    ELSE fs]

\* build_command without the check for missing structure files
BuildCommand_NoCheck(fs, info, has_timeout, timeout) ==
    SelectInput(fs, info, has_timeout, timeout)

\* build_command raising an error that names the first missing file only
BuildCommand_FirstOnly(fs, info, has_timeout, timeout) ==
    IF info.missing_structure_files # <<>>
    THEN [err |-> Error("ValueError",
                        <<<<"Cannot run Packmol: Missing structure files:">>,
                          info.missing_structure_files[1]>>),
          cmd |-> <<>>, info |-> info, fs |-> fs]
    ELSE SelectInput(fs, info, has_timeout, timeout)

\* build_command passing the selected file as a command-line argument
BuildCommand_PathArgument(fs, info, has_timeout, timeout) ==
    IF info.missing_structure_files # <<>>
    THEN [err |-> Error("ValueError",
                        <<<<"Cannot run Packmol: Missing structure files:">>>>
                        \o info.missing_structure_files),
          cmd |-> <<>>, info |-> info, fs |-> fs]
    ELSE LET r == SelectInput(fs, info, has_timeout, timeout)
         IN [r EXCEPT !.cmd = @ \o <<r.info.stdin_file.base>>]

\* build_command: [err, cmd, info, fs].  cmd is the command list; the
\* executable path is the word "packmol".
BuildCommand(fs, info, has_timeout, timeout) ==
    IF info.missing_structure_files # <<>>
    THEN [err |-> Error("ValueError",
                        <<<<"Cannot run Packmol: Missing structure files:">>>>
                        \o info.missing_structure_files),
          cmd |-> <<>>, info |-> info, fs |-> fs]
    ELSE SelectInput(fs, info, has_timeout, timeout)

(***************************************************************************)
(* PackmolTool.process_output                                              *)
(***************************************************************************)
\* "TimeoutExpired" in stderr or "timed out" in stderr.lower()
LooksLikeTimeout(stderr) ==
    \/ Contains(stderr, <<"TimeoutExpired">>)
    \/ Contains(Lower(stderr), <<"timed", SP, "out">>)

\* the first key of the global options with key.lower() == 'output', joined
RECURSIVE ExpectedOutput(_, _)
ExpectedOutput(kv, i) ==
    IF i > Len(kv) THEN <<>>
    ELSE IF LowerWord(kv[i].k) = "output" THEN Join(Strs(kv[i].v))
    ELSE ExpectedOutput(kv, i + 1)

\* the expected output, where it is a file: relative to the workspace first,
\* then as an absolute path
DeclaredOutputFile(fs, workspace_path, expected_output) ==
    IF expected_output = <<>> THEN NoPath
    ELSE LET possible_paths ==
                 <<JoinPath(workspace_path, PathOf(expected_output)),
                   IF IsAbs(PathOf(expected_output)) THEN PathOf(expected_output)
                   ELSE NoPath>>
         IN IF IsFile(fs, possible_paths[1]) THEN possible_paths[1]
            ELSE IF possible_paths[2] # NoPath /\ IsFile(fs, possible_paths[2])
            THEN possible_paths[2]
            ELSE NoPath

\* the words that end with ":"
ColonWords == {"file:"}

\* line.split(":", 1)[1].strip() for a line that holds "Output file:"
RECURSIVE AfterColon(_)
AfterColon(line) ==
    IF line = <<>> THEN <<>>
    ELSE IF Head(line) \in ColonWords THEN Strip(Tail(line))
    ELSE AfterColon(Tail(line))

\* the output file the first "Output file:" line of stdout names
RECURSIVE StdoutOutputFile(_, _, _)
StdoutOutputFile(stdout, i, workspace_path) ==
    IF i > Len(stdout) THEN NoPath
    ELSE IF Contains(stdout[i], <<"Output", SP, "file:">>)
    THEN LET name == AfterColon(stdout[i])
         IN IF name = <<>> THEN [dir |-> workspace_path, base |-> ""]
            ELSE JoinPath(workspace_path, PathOf(name))
    ELSE StdoutOutputFile(stdout, i + 1, workspace_path)

\* is_timeout: a non-zero return code whose stderr reads like a timeout
IsTimeout(return_code, stderr) == return_code # 0 /\ LooksLikeTimeout(stderr)

\* raising for every non-zero return code, a timeout included
Raises_OnTimeout(return_code, is_timeout, continue_on_error) ==
    return_code # 0 /\ ~continue_on_error

\* whether process_output raises RuntimeError
Raises(return_code, is_timeout, continue_on_error) ==
    return_code # 0 /\ ~is_timeout /\ ~continue_on_error

\* the "Output file:" line of stdout consulted before the declared output
LocateOutput_StdoutFirst(fs, stdout, info) ==
    LET expected_output ==
            ExpectedOutput(Get(info.config, "global", EmptyDict).kv, 1)
        marked == StdoutOutputFile(stdout, 1, info.workspace_path)
    IN IF marked # NoPath THEN marked
       ELSE DeclaredOutputFile(fs, info.workspace_path, expected_output)

\* output_file: the declared output where it is a file, else what the
\* "Output file:" line of stdout names, else None
LocateOutput(fs, stdout, info) ==
    LET expected_output ==
            ExpectedOutput(Get(info.config, "global", EmptyDict).kv, 1)
        declared == DeclaredOutputFile(fs, info.workspace_path, expected_output)
    IN IF declared # NoPath THEN declared
       ELSE StdoutOutputFile(stdout, 1, info.workspace_path)

\* every located file listed, whatever its size
OutputFiles_KeepEmpty(fs, output_file, is_timeout, continue_on_error) ==
    IF output_file # NoPath /\ IsFile(fs, output_file) THEN <<output_file>> ELSE <<>>

\* output_files of the result
OutputFiles(fs, output_file, is_timeout, continue_on_error) ==
    IF ~(output_file # NoPath /\ IsFile(fs, output_file)) THEN <<>>
    ELSE IF GetSize(fs, output_file) > 0 THEN <<output_file>>
    ELSE IF ~is_timeout /\ ~continue_on_error THEN <<>>
    ELSE <<output_file>>

\* process_output: [err, result, tracked].  tracked are the files handed to
\* workspace_manager.track_files.
ProcessOutput(fs, return_code, stdout, stderr, info, continue_on_error) ==
    LET is_timeout == IsTimeout(return_code, stderr)
        output_file == LocateOutput(fs, stdout, info)
        is_file == output_file # NoPath /\ IsFile(fs, output_file)
        output_files == OutputFiles(fs, output_file, is_timeout, continue_on_error)
    IN IF Raises(return_code, is_timeout, continue_on_error)
       THEN [err |-> Error("RuntimeError",
                           <<<<"Packmol failed with return code">>,
                             <<ToString(return_code)>>, <<".">>>>),
             result |-> PyNone,
             tracked |-> <<>>]
       ELSE [err |-> NoError,
             result |-> [return_code |-> return_code,
                         stdout |-> stdout,
                         stderr |-> stderr,
                         output_files |-> output_files,
                         output_file |-> output_file,
                         config |-> info.config,
                         timed_out |-> is_timeout],
             tracked |-> IF is_file THEN <<output_file>> ELSE <<>>]

(***************************************************************************)
(* PackmolCommand.execute: what the command does with the outcome of       *)
(* packmol.execute.                                                        *)
(***************************************************************************)
\* _copy_output_file for each of the files: the copies that succeed, as
\* [base, suffix, d] (base name, suffix put before the extension, content)
RECURSIVE CopyOutputs(_, _, _)
CopyOutputs(f, files, suffix) ==
    IF files = <<>> THEN <<>>
    ELSE (IF IsFile(f, Head(files))
          THEN <<[base |-> Head(files).base, suffix |-> suffix, d |-> f[Head(files)].d]>>
          ELSE <<>>)
         \o CopyOutputs(f, Tail(files), suffix)

\* partial results used whatever --continue-on-timeout is
UsesPartial_Always(output_files, continue_on_timeout) ==
    output_files # <<>>

\* whether the partial results of a timed-out run are used
UsesPartial(output_files, continue_on_timeout) ==
    output_files # <<>> /\ continue_on_timeout

\* [exit_code, copied] for the exception err packmol.execute raised, or the
\* result res it returned
HandleOutcome(f, err, res, continue_on_error, continue_on_timeout) ==
    IF err # NoError THEN [exit_code |-> 1, copied |-> <<>>]
    ELSE IF res.timed_out
    THEN IF UsesPartial(res.output_files, continue_on_timeout)
         THEN [exit_code |-> 0, copied |-> CopyOutputs(f, res.output_files, "_partial")]
         ELSE [exit_code |-> 1, copied |-> <<>>]
    ELSE IF res.return_code = 0
    THEN [exit_code |-> 0,
          copied |-> IF res.output_file # NoPath
                     THEN CopyOutputs(f, <<res.output_file>>, "")
                     ELSE <<>>]
    ELSE IF continue_on_error
    THEN [exit_code |-> 0, copied |-> CopyOutputs(f, res.output_files, "_error")]
    ELSE [exit_code |-> 1, copied |-> <<>>]

\* whether the handler of the command that sets config.keep_session_workspace
\* runs for the exception err of packmol.execute: `except ValueError` returns
\* before it, `except Exception` is that handler
KeepsWorkspace(err) == err # NoError /\ err.kind # "ValueError"

(***************************************************************************)
(* State.                                                                  *)
(***************************************************************************)
VARIABLES
    ppc,        \* parser scenario: "start", "parsed", "generated", "reparsed"
    text,       \* the content of the file given to parse_packmol_file
    parsed,     \* [err, val] of parse_packmol_file(text)
    gen,        \* the content generate_packmol_file wrote for parsed.val
    reparsed    \* [err, val] of parse_packmol_file on gen

VARIABLES
    mpc,        \* merge scenario: "start", "merged"
    base0,      \* the value of the mapping passed as orig, before the call
    base,       \* the value the mapping passed as orig holds now
    upd,        \* the mapping passed as updates
    merged      \* the value update_dict returned

VARIABLES
    rpc,                \* runner state: "Unvalidated", "Validated", "Staged", "Built",
                        \* "Executing", then "Succeeded", "TimedOut" or "Failed"
    fs0,                \* the file system before the run
    fs,                 \* the file system
    workspace_path,     \* the workspace directory of the invocation
    input_file,         \* the arguments of the run (NoPath, PyNone: not given)
    output_file,
    config_dict,
    update_dict,
    continue_on_error,
    has_timeout,
    continue_on_timeout,
    input_info,         \* what prepare_inputs returned, as build_command left it
    cmd,                \* the command build_command returned
    launched,           \* whether a subprocess was launched
    outcome,            \* how the subprocess ended: "exit" or "timeout"
    return_code,        \* what run_process captured
    stdout,
    stderr,
    result,             \* what process_output returned
    tracked,            \* the files registered with the workspace manager
    rerr,               \* the exception that ended the run, NoError when none
    returned,           \* whether the packmol command has returned
    exit_code,          \* the exit code it returned
    copied,             \* the files it copied to its output directory
    keep_session_workspace,     \* config.keep_session_workspace
    session_workspace   \* the session workspace: "open", "kept" or "removed"

VARIABLES
    pfs,        \* two concurrent invocations: the file system they share
    runs        \* and, for each, its arguments, position and input_info

VARIABLES
    existing,   \* two concurrent commands: the output directories that exist
                \* (0 is the base directory, N is <base>_N)
    cmds        \* and, for each command, its position, output_dir and counter

parseVars == <<ppc, text, parsed, gen, reparsed>>
mergeVars == <<mpc, base0, base, upd, merged>>
argVars == <<workspace_path, input_file, output_file, config_dict, update_dict,
             continue_on_error, has_timeout, continue_on_timeout>>
procVars == <<launched, outcome, return_code, stdout, stderr>>
cmdVars == <<returned, exit_code, copied, keep_session_workspace, session_workspace>>
runVars == <<rpc, fs0, fs, argVars, input_info, cmd, procVars, result, tracked, rerr,
            cmdVars>>
pairVars == <<pfs, runs>>
dirVars == <<existing, cmds>>
vars == <<parseVars, mergeVars, runVars, pairVars, dirVars>>
outsideParse == <<mergeVars, runVars, pairVars, dirVars>>
outsideMerge == <<parseVars, runVars, pairVars, dirVars>>
outsideRun == <<parseVars, mergeVars, pairVars, dirVars>>
outsidePair == <<parseVars, mergeVars, runVars, dirVars>>
outsideDirs == <<parseVars, mergeVars, runVars, pairVars>>

NoResult == Raise("unset")

\* the scenarios that are not running
PairOff == pfs = <<>> /\ runs = <<>>

DirsOff == existing = {} /\ cmds = <<>>

ParseOff ==
    /\ ppc = "off"
    /\ text = <<>>
    /\ parsed = NoResult
    /\ gen = <<>>
    /\ reparsed = NoResult

MergeOff ==
    /\ mpc = "off"
    /\ base0 = PyNone
    /\ base = PyNone
    /\ upd = PyNone
    /\ merged = PyNone

NoInfo ==
    [workspace_path |-> "", input_file |-> NoPath, config |-> PyNone,
     output_file |-> NoPath, structure_files |-> <<>>,
     missing_structure_files |-> <<>>, final_input_file |-> NoPath,
     stdin_file |-> NoPath]

\* nothing built, launched or returned yet
NotRunYet ==
    /\ input_info = NoInfo
    /\ cmd = <<>>
    /\ launched = FALSE
    /\ outcome = "none"
    /\ return_code = 0
    /\ stdout = <<>>
    /\ stderr = <<>>
    /\ result = PyNone
    /\ tracked = <<>>
    /\ rerr = NoError
    /\ returned = FALSE
    /\ exit_code = 0
    /\ copied = <<>>
    /\ session_workspace = "open"

RunOff ==
    /\ rpc = "off"
    /\ fs0 = <<>>
    /\ fs = <<>>
    /\ workspace_path = ""
    /\ input_file = NoPath
    /\ output_file = NoPath
    /\ config_dict = PyNone
    /\ update_dict = PyNone
    /\ continue_on_error = FALSE
    /\ has_timeout = FALSE
    /\ continue_on_timeout = FALSE
    /\ keep_session_workspace = FALSE
    /\ NotRunYet

(***************************************************************************)
(* Parse / generate / parse again (test_generate_packmol_file).            *)
(***************************************************************************)
\* the lines input texts are made of
InputLines ==
    { <<"tolerance", SP, "2.0">>,
      <<"structure", SP, "a.pdb">>,
      <<"STRUCTURE", SP, SP, "b.pdb", SP, "extra">>,
      <<"structure">>,
      <<"end", SP, "structure">>,
      <<"End", SP, SP, "structure">>,
      <<SP, SP, "number", SP, "10">>,
      <<"number", SP, "20", SP>>,
      <<"Number">>,
      <<"INSIDE", SP, "box", SP, "0.", SP, "30.">>,
      <<"outside">>,
      <<"Atoms", SP, "1", SP, "2">>,
      <<"end", SP, "atoms">>,
      <<"#c", SP, "structure">>,
      <<SP>> }

\* the end-to-end sample of the integration tests
SampleText ==
    << <<"#", SP, "Test", SP, "Packmol", SP, "input", SP, "file">>,
       <<"tolerance", SP, "2.0">>,
       <<"filetype", SP, "pdb">>,
       <<"output", SP, "test_output.pdb">>,
       <<>>,
       <<"structure", SP, "molecule.pdb">>,
       <<SP, SP, "number", SP, "10">>,
       <<SP, SP, "inside", SP, "box", SP, "0.", SP, "0.", SP, "0.", SP, "30.", SP, "30.", SP, "30.">>,
       <<"end", SP, "structure">> >>

\* an input with keywords in upper case, repeated keys and keys that differ
\* in case only; its last block is not closed
KeywordText ==
    << <<"number", SP, "10">>,
       <<"Number">>,
       <<"number", SP, "20", SP>>,
       <<"STRUCTURE", SP, SP, "b.pdb", SP, "extra">>,
       <<SP, SP, "number", SP, "10">>,
       <<SP, SP, "Number">>,
       <<SP, SP, "number", SP, "20">>,
       <<SP, SP, "INSIDE", SP, "box", SP, "0.", SP, "30.">>,
       <<SP, SP, "Atoms", SP, "1", SP, "2">>,
       <<SP, SP, SP, SP, "radius", SP, "1.5">>,
       <<SP, SP, "End", SP, "Atoms">>,
       <<"END", SP, "STRUCTURE">>,
       <<"Structure", SP, "a.pdb">>,
       <<SP, SP, "Outside", SP, "sphere", SP, "1.">> >>

InputTexts ==
    UNION {[1..n -> InputLines] : n \in 0..MaxLines} \cup {SampleText, KeywordText}

InitParse ==
    /\ ppc = "start"
    /\ text \in InputTexts
    /\ parsed = NoResult
    /\ gen = <<>>
    /\ reparsed = NoResult
    /\ MergeOff
    /\ RunOff
    /\ PairOff
    /\ DirsOff

\* config = parse_packmol_file(input_file)
DoParse ==
    /\ ppc = "start"
    /\ parsed' = ParsePackmolText(text)
    /\ ppc' = "parsed"
    /\ UNCHANGED <<text, gen, reparsed>>
    /\ UNCHANGED outsideParse

\* generate_packmol_file(config, output_file)
DoGenerate ==
    /\ ppc = "parsed"
    /\ parsed.err = NoErr
    /\ gen' = GeneratePackmolText(parsed.val)
    /\ ppc' = "generated"
    /\ UNCHANGED <<text, parsed, reparsed>>
    /\ UNCHANGED outsideParse

\* generated_config = parse_packmol_file(output_file)
DoReparse ==
    /\ ppc = "generated"
    /\ reparsed' = ParsePackmolText(gen)
    /\ ppc' = "reparsed"
    /\ UNCHANGED <<text, parsed, gen>>
    /\ UNCHANGED outsideParse

NextParse == DoParse \/ DoGenerate \/ DoReparse

SpecParse == InitParse /\ [][NextParse]_vars

(***************************************************************************)
(* C1: round trip.  Generating the Configuration that parse returned and   *)
(* parsing the generated text again yields an equal Configuration.         *)
(***************************************************************************)
C1_RoundTrip ==
    ppc = "reparsed" => reparsed.err = NoErr /\ PyEq(reparsed.val, parsed.val)

(***************************************************************************)
(* Merge (test_update_dict).                                               *)
(***************************************************************************)
Pair(k, v) == [k |-> k, v |-> v]
Tokens(ws) == StrList([i \in 1..Len(ws) |-> <<ws[i]>>])

\* the update dictionary of the integration tests
TestUpdate ==
    PyDict(<<Pair("global", PyDict(<<Pair("tolerance", Tokens(<<"3.0">>)),
                                     Pair("output", Tokens(<<"updated_output.pdb">>))>>)),
             Pair("structures",
                  PyList(<<PyDict(<<Pair("properties",
                                         PyDict(<<Pair("number", Tokens(<<"20">>))>>))>>)>>))>>)

\* a configuration with two structure blocks
TwoBlockText ==
    << <<"tolerance", SP, "2.0">>,
       <<"structure", SP, "a.pdb">>,
       <<"number", SP, "10">>,
       <<"inside", SP, "box", SP, "0.">>,
       <<"end", SP, "structure">>,
       <<"structure", SP, "b.pdb">>,
       <<"number", SP, "5">>,
       <<"end", SP, "structure">> >>

MergeBases ==
    { ParsePackmolText(SampleText).val,
      ParsePackmolText(TwoBlockText).val,
      PyDict(<<Pair("global", PyDict(<<Pair("tolerance", Tokens(<<"2.0">>))>>))>>),
      PyDict(<<Pair("global", Tokens(<<"2.0">>)),
               Pair("extra", PyDict(<<Pair("deep", PyDict(<<Pair("k", Tokens(<<"v">>))>>))>>))>>),
      EmptyDict }

GlobalUpdates ==
    { PyDict(<<Pair("tolerance", Tokens(<<"3.0">>))>>),
      PyDict(<<Pair("seed", Tokens(<<"1">>)), Pair("tolerance", Tokens(<<"3.0">>))>>),
      EmptyDict,
      Tokens(<<"3.0">>) }

StructuresUpdates ==
    { EmptyList,
      PyList(<<PyDict(<<Pair("properties", PyDict(<<Pair("number", Tokens(<<"20">>))>>))>>)>>),
      PyList(<<PyDict(<<Pair("structure_file", PyStr(<<"c.pdb">>))>>),
               PyDict(<<Pair("others", EmptyList)>>),
               PyDict(<<Pair("structure_file", PyStr(<<"d.pdb">>))>>)>>) }

ExtraUpdates ==
    { PyDict(<<Pair("deep", PyDict(<<Pair("k", Tokens(<<"w">>)), Pair("n", EmptyList)>>))>>),
      PyDict(<<Pair("deep", Tokens(<<"flat">>))>>) }

\* the dict of the pairs whose value is not PyNone
RECURSIVE Present(_)
Present(kv) ==
    IF kv = <<>> THEN <<>>
    ELSE IF Head(kv).v = PyNone THEN Present(Tail(kv))
    ELSE <<Head(kv)>> \o Present(Tail(kv))

MergeUpdates ==
    { PyDict(Present(<<Pair("structures", s), Pair("global", g), Pair("extra", e)>>)) :
        s \in StructuresUpdates \cup {PyNone},
        g \in GlobalUpdates \cup {PyNone},
        e \in ExtraUpdates \cup {PyNone} }
    \cup {TestUpdate}

InitMerge ==
    /\ mpc = "start"
    /\ base0 \in MergeBases
    /\ base = base0
    /\ upd \in MergeUpdates
    /\ merged = PyNone
    /\ ParseOff
    /\ RunOff
    /\ PairOff
    /\ DirsOff

\* updated_config = update_dict(config, updates): config is updated in place
DoUpdate ==
    /\ mpc = "start"
    /\ merged' = UpdateDict(base, upd)
    /\ base' = merged'
    /\ mpc' = "merged"
    /\ UNCHANGED <<base0, upd>>
    /\ UNCHANGED outsideMerge

NextMerge == DoUpdate

SpecMerge == InitMerge /\ [][NextMerge]_vars

(***************************************************************************)
(* C2: a text with a bare `structure` line (the keyword with no file       *)
(* argument), wherever the line stands, fails to parse with the malformed  *)
(* input error (ValueError) and returns no Configuration.                  *)
(***************************************************************************)
HasBareStructureLine(t) ==
    \E i \in 1..Len(t) : Lower(Strip(t[i])) = <<"structure">>

C2_BareStructureRaises ==
    (ppc # "start" /\ ppc # "off" /\ HasBareStructureLine(text))
        => parsed.err = "ValueError"

(***************************************************************************)
(* C3: an update whose `structures` entry is a sequence is merged position *)
(* by position into the existing blocks: the fields of block i that the    *)
(* update's element i does not mention are unchanged, and the blocks       *)
(* beyond the update's length are kept.                                    *)
(***************************************************************************)
IsList(x) == x.t = "list"

C3_PositionalMerge ==
    (/\ mpc = "merged"
     /\ IsList(Get(upd, "structures", PyNone))
     /\ IsList(Get(base0, "structures", PyNone)))
    => LET bs == Get(base0, "structures", PyNone).items
           us == Get(upd, "structures", PyNone).items
           rs == Get(merged, "structures", PyNone).items
       IN /\ Len(rs) >= Len(bs)
          /\ \A i \in 1..Len(bs) :
                IF i > Len(us) THEN rs[i] = bs[i]
                ELSE \A k \in Keys(bs[i]) \ Keys(us[i]) :
                        /\ HasKey(rs[i], k)
                        /\ Get(rs[i], k, PyNone) = Get(bs[i], k, PyNone)

(***************************************************************************)
(* C4: merge replacement semantics.  For every key of the update: when the *)
(* base value and the update value are both mappings the merge recurses,   *)
(* in every other case the update value replaces the base value wholesale; *)
(* the keys of the base the update does not mention keep their value, and  *)
(* every key of the base keeps its position.                               *)
(***************************************************************************)
RECURSIVE IsMergeOf(_, _, _)
IsMergeOf(r, b, u) ==
    /\ IsDict(r)
    /\ Keys(r) = Keys(b) \cup Keys(u)
    /\ Len(r.kv) = Cardinality(Keys(r))
    /\ \A i \in 1..Len(b.kv) : r.kv[i].k = b.kv[i].k
    /\ \A k \in Keys(b) \ Keys(u) : Get(r, k, PyNone) = Get(b, k, PyNone)
    /\ \A k \in Keys(u) :
          IF HasKey(b, k) /\ IsDict(Get(b, k, PyNone)) /\ IsDict(Get(u, k, PyNone))
          THEN IsMergeOf(Get(r, k, PyNone), Get(b, k, PyNone), Get(u, k, PyNone))
          ELSE Get(r, k, PyNone) = Get(u, k, PyNone)

C4_MergeReplaces == mpc = "merged" => IsMergeOf(merged, base0, upd)

\* the sample configuration merged with the update of the tests: the global
\* mapping was recursed into (filetype kept, tolerance replaced), the
\* structures list was replaced
C4_Witness ==
    /\ mpc = "merged"
    /\ base0 = ParsePackmolText(SampleText).val
    /\ upd = TestUpdate
    /\ Get(Get(merged, "global", PyNone), "tolerance", PyNone) = Tokens(<<"3.0">>)
    /\ Get(Get(merged, "global", PyNone), "filetype", PyNone) = Tokens(<<"pdb">>)
    /\ Get(merged, "structures", PyNone) = Get(TestUpdate, "structures", PyNone)

(***************************************************************************)
(* The runner: validate, stage, build the command, execute, process the    *)
(* output.                                                                 *)
(***************************************************************************)
\* --timeout of the packmol command
DefaultTimeout == 900

\* what a structure file in directory d holds
PdbData(d, b) == <<<<"ATOM", SP, d, SP, b>>>>

RunText1 ==
    << <<"tolerance", SP, "2.0">>,
       <<"output", SP, "out.pdb">>,
       <<"structure", SP, "a.pdb">>,
       <<SP, SP, "number", SP, "10">>,
       <<SP, SP, "inside", SP, "box", SP, "0.", SP, "30.">>,
       <<"end", SP, "structure">> >>

RunText2 ==
    << <<"output", SP, "out.pdb">>,
       <<"structure", SP, "/x/a.pdb">>,
       <<"end", SP, "structure">>,
       <<"structure", SP, "b.pdb">>,
       <<SP, SP, "number", SP, "5">>,
       <<"end", SP, "structure">> >>

RunText3 ==
    << <<"structure", SP, "/x/a.pdb">>,
       <<"end", SP, "structure">>,
       <<"structure", SP, "a.pdb">>,
       <<"end", SP, "structure">> >>

RunTexts == {RunText1, RunText2, RunText3}

\* the source input file of a run, and a path that names no file
SourceInput == [dir |-> "/in", base |-> "test.inp"]
AbsentInput == [dir |-> "/in", base |-> "gen.inp"]

\* the file system before a run: the source input file holds text t, a.pdb
\* exists in the directories as, b.pdb in the directories bs
InitialFs(t, as, bs) ==
    [p \in FsPaths |->
        IF p = SourceInput THEN FileOf(t)
        ELSE IF p.base = "a.pdb" /\ p.dir \in as THEN FileOf(PdbData(p.dir, "a.pdb"))
        ELSE IF p.base = "b.pdb" /\ p.dir \in bs THEN FileOf(PdbData(p.dir, "b.pdb"))
        ELSE NoFile]

\* A call of the runner: the files before it and its arguments.  config is
\* "none" (no config_dict), "dict" (the configuration of text t) or "list" (a
\* config_dict that is no mapping).
Call(t, as, bs, ws, inp, cfg, out, u, coe, to) ==
    [text |-> t, as |-> as, bs |-> bs, workspace_path |-> ws, input_file |-> inp,
     config |-> cfg, output_file |-> out, update_dict |-> u,
     continue_on_error |-> coe, has_timeout |-> to]

RequestedOutput == [dir |-> "/cwd", base |-> "gen.inp"]
UpdateOutput == PyDict(<<Pair("global", PyDict(<<Pair("Output", Tokens(<<"/x/out.pdb">>))>>))>>)
UpdateStructures ==
    PyDict(<<Pair("global", PyDict(<<Pair("tolerance", Tokens(<<"3.0">>))>>)),
             Pair("structures",
                  PyList(<<PyDict(<<Pair("properties",
                      PyDict(<<Pair("number", Tokens(<<"20">>))>>))>>)>>))>>)
UpdateNoMapping == Tokens(<<"tolerance", "3.0">>)

\* the calls that vary what validate_inputs reads
ValidationCalls ==
    { Call(RunText1, {"/in"}, {}, "/ws", inp, cfg, NoPath, u, FALSE, FALSE) :
        inp \in {NoPath, SourceInput, AbsentInput},
        cfg \in {"none", "dict", "list"},
        u \in {PyNone, UpdateOutput, UpdateNoMapping} }

\* the calls that vary where the structure files are and where the workspace is
SearchCalls ==
    { Call(t, as, bs, ws, m[1], m[2], NoPath, PyNone, FALSE, FALSE) :
        t \in {RunText2, RunText3},
        as \in {{}, {"/in"}, {"/x"}, {"/cwd", "/x"}},
        bs \in {{}, {"/in"}},
        ws \in {"/ws", "/in", "/cwd"},
        m \in {<<SourceInput, "none">>, <<NoPath, "dict">>} }

\* the calls that vary which dialect file is generated
GenerationCalls ==
    { Call(RunText1, {"/cwd", "/x"}, {}, ws, m[1], m[2], out, u, FALSE, FALSE) :
        ws \in {"/ws", "/in"},
        m \in {<<SourceInput, "none">>, <<NoPath, "dict">>},
        out \in {NoPath, RequestedOutput},
        u \in {PyNone, UpdateOutput, UpdateStructures} }

\* the calls that vary the keyword arguments
KeywordCalls ==
    { Call(t, {"/cwd", "/x"}, {}, "/ws", SourceInput, "none", NoPath, u, coe, to) :
        t \in {RunText1, RunText3},
        u \in {PyNone, UpdateOutput},
        coe \in BOOLEAN,
        to \in BOOLEAN }

Calls == ValidationCalls \cup SearchCalls \cup GenerationCalls \cup KeywordCalls

\* --continue-on-timeout of the packmol command, varied with the keyword
\* arguments
CommandFlags(c) == IF c \in KeywordCalls THEN BOOLEAN ELSE {FALSE}

\* config.keep_session_workspace as main() sets it from --keep / --keep-logs
KeepFlags(c) == IF c \in KeywordCalls THEN BOOLEAN ELSE {FALSE}

InitRun ==
    /\ rpc = "Unvalidated"
    /\ \E c \in Calls :
          /\ fs0 = InitialFs(c.text, c.as, c.bs)
          /\ config_dict = CASE c.config = "none" -> PyNone
                             [] c.config = "dict" -> ParsePackmolText(c.text).val
                             [] c.config = "list" -> EmptyList
          /\ workspace_path = c.workspace_path
          /\ input_file = c.input_file
          /\ output_file = c.output_file
          /\ update_dict = c.update_dict
          /\ continue_on_error = c.continue_on_error
          /\ has_timeout = c.has_timeout
          /\ continue_on_timeout \in CommandFlags(c)
          /\ keep_session_workspace \in KeepFlags(c)
    /\ fs = fs0
    /\ NotRunYet
    /\ ParseOff
    /\ MergeOff
    /\ PairOff
    /\ DirsOff

\* validate_inputs(**kwargs)
Validate ==
    /\ rpc = "Unvalidated"
    /\ LET e == ValidateInputs(fs, input_file, config_dict, update_dict)
       IN /\ rerr' = e
          /\ rpc' = IF e = NoError THEN "Validated" ELSE "Failed"
    /\ UNCHANGED <<fs0, fs, argVars, input_info, cmd, procVars, result, tracked>>
    /\ UNCHANGED cmdVars
    /\ UNCHANGED outsideRun

\* input_info = prepare_inputs(workspace_path, **kwargs)
Stage ==
    /\ rpc = "Validated"
    /\ \E r \in {PrepareInputs(fs, workspace_path, input_file, output_file,
                               config_dict, update_dict)} :
          /\ fs' = r.fs
          /\ input_info' = r.info
          \* input_info['config'] is the caller's config_dict itself: the merge
          \* and the rewriting of structure_file update it in place
          /\ config_dict' = IF input_file = NoPath THEN r.info.config ELSE config_dict
    /\ rpc' = "Staged"
    /\ UNCHANGED <<workspace_path, input_file, output_file, update_dict,
                   continue_on_error, has_timeout, continue_on_timeout>>
    /\ UNCHANGED <<fs0, cmd, procVars, result, tracked, rerr>>
    /\ UNCHANGED cmdVars
    /\ UNCHANGED outsideRun

\* cmd = build_command(input_info, **kwargs)
Build ==
    /\ rpc = "Staged"
    /\ \E r \in {BuildCommand(fs, input_info, has_timeout, DefaultTimeout)} :
          /\ rerr' = r.err
          /\ cmd' = r.cmd
          /\ input_info' = r.info
          /\ fs' = r.fs
          /\ rpc' = IF r.err = NoError THEN "Built" ELSE "Failed"
    /\ UNCHANGED <<fs0, argVars, procVars, result, tracked>>
    /\ UNCHANGED cmdVars
    /\ UNCHANGED outsideRun

\* the subprocess is launched, its standard input wired to stdin_file
Launch ==
    /\ rpc = "Built"
    /\ launched' = TRUE
    /\ rpc' = "Executing"
    /\ UNCHANGED <<fs0, fs, argVars, input_info, cmd, outcome, return_code,
                   stdout, stderr, result, tracked, rerr>>
    /\ UNCHANGED cmdVars
    /\ UNCHANGED outsideRun

\* what the subprocess can leave on stderr when it exits by itself
ExitStderrs(rc) ==
    IF rc = 0 THEN {<<>>}
    ELSE {<<"ERROR:", SP, "STOP">>, <<"Connection", SP, "Timed", SP, "Out">>}
\* what run_process reports for a subprocess it killed at the timeout
TimeoutStderr == <<"Process", SP, "timed", SP, "out">>

ProcessStdouts ==
    {<<>>,
     <<<<"Packing">>, <<"Output", SP, "file:", SP, SP, "other.pdb">>>>,
     <<<<"Output", SP, "file:", SP, "/x/out.pdb">>, <<"Output", SP, "file:", SP, "other.pdb">>>>}

\* the output file the staged configuration declares, as the subprocess
\* resolves it (its working directory is the workspace)
ProcessOutputPath(config, workspace) ==
    LET expected == ExpectedOutput(Get(config, "global", EmptyDict).kv, 1)
    IN IF expected = <<>> THEN NoPath ELSE JoinPath(workspace, PathOf(expected))

\* the files the subprocess leaves: its declared output (none, empty or with
\* data) and a file of another name
ProcessWrites(f, wrote, other) ==
    LET target == ProcessOutputPath(input_info.config, workspace_path)
        f1 == IF wrote = "none" \/ target = NoPath THEN f
              ELSE WriteFile(f, target,
                             IF wrote = "empty" THEN <<>> ELSE <<<<"ATOM", SP, "packed">>>>)
    IN IF other
       THEN WriteFile(f1, [dir |-> workspace_path, base |-> "other.pdb"],
                      <<<<"ATOM", SP, "other">>>>)
       ELSE f1

\* the subprocess exits, or is killed at the timeout
ProcessEnds ==
    /\ rpc = "Executing"
    /\ \E how \in {"exit", "timeout"}, rc \in {0, 1},
          wrote \in {"none", "empty", "full"}, other \in BOOLEAN :
          /\ outcome' = how
          /\ return_code' = IF how = "timeout" THEN -1 ELSE rc
          /\ stderr' \in IF how = "timeout" THEN {TimeoutStderr} ELSE ExitStderrs(rc)
          /\ how = "timeout" => rc = 1
          /\ fs' = ProcessWrites(fs, wrote, other)
    /\ stdout' \in ProcessStdouts
    /\ rpc' = "Exited"
    /\ UNCHANGED <<fs0, argVars, input_info, cmd, launched, result, tracked, rerr>>
    /\ UNCHANGED cmdVars
    /\ UNCHANGED outsideRun

\* result = process_output(return_code, stdout, stderr, input_info, **kwargs)
Process ==
    /\ rpc = "Exited"
    /\ \E r \in {ProcessOutput(fs, return_code, stdout, stderr, input_info,
                               continue_on_error)} :
          /\ rerr' = r.err
          /\ result' = r.result
          /\ tracked' = r.tracked
          /\ rpc' = IF r.err # NoError THEN "Failed"
                    ELSE IF r.result.timed_out THEN "TimedOut"
                    ELSE IF return_code = 0 THEN "Succeeded"
                    ELSE "Failed"
    /\ UNCHANGED <<fs0, fs, argVars, input_info, cmd, procVars>>
    /\ UNCHANGED cmdVars
    /\ UNCHANGED outsideRun

\* the command returns
CommandReturns ==
    /\ rpc \in {"Succeeded", "TimedOut", "Failed"}
    /\ ~returned
    /\ \E r \in {HandleOutcome(fs, rerr, result, continue_on_error,
                               continue_on_timeout)} :
          /\ exit_code' = r.exit_code
          /\ copied' = r.copied
    /\ keep_session_workspace' = (keep_session_workspace \/ KeepsWorkspace(rerr))
    /\ returned' = TRUE
    /\ UNCHANGED <<rpc, fs0, fs, argVars, input_info, cmd, procVars, result, tracked, rerr>>
    /\ UNCHANGED session_workspace
    /\ UNCHANGED outsideRun

\* cleanup_session(), after main() returned the exit code of the command: no
\* exception is being handled then
CleanupSession ==
    /\ returned
    /\ session_workspace = "open"
    /\ session_workspace' = IF keep_session_workspace THEN "kept" ELSE "removed"
    /\ UNCHANGED <<rpc, fs0, fs, argVars, input_info, cmd, procVars, result, tracked, rerr>>
    /\ UNCHANGED <<returned, exit_code, copied, keep_session_workspace>>
    /\ UNCHANGED outsideRun

NextRun ==
    Validate \/ Stage \/ Build \/ Launch \/ ProcessEnds \/ Process \/ CommandReturns
    \/ CleanupSession

SpecRun == InitRun /\ [][NextRun]_vars

(***************************************************************************)
(* C5: search path precedence.  A structure file given as a bare file name *)
(* that exists only in the directory of the source input file (the working *)
(* directory and the workspace being other directories) is found, copied   *)
(* into the workspace and not reported missing.                            *)
(***************************************************************************)
Staged == input_info # NoInfo
SourceDir == SourceInput.dir
SourceBlocks == Get(ParsePackmolText(fs0[SourceInput].d).val, "structures", EmptyList).items

OnlyInSourceDir(name) ==
    /\ ~IsAbs(PathOf(name))
    /\ \A d \in Dirs : fs0[[dir |-> d, base |-> PathOf(name).base]].e <=> d = SourceDir

C5_FoundInSourceDir ==
    (/\ rpc = "Staged"
     /\ input_file = SourceInput
     /\ update_dict = PyNone
     /\ workspace_path \notin {Cwd, SourceDir})
    => \A i \in 1..Len(SourceBlocks) :
          LET name == Get(SourceBlocks[i], "structure_file", PyNone).s
              staged == [dir |-> workspace_path, base |-> PathOf(name).base]
          IN OnlyInSourceDir(name)
             => /\ \A j \in 1..Len(input_info.missing_structure_files) :
                        input_info.missing_structure_files[j] # name
                /\ fs[staged] = fs0[[dir |-> SourceDir, base |-> PathOf(name).base]]

(***************************************************************************)
(* C6: missing-file aggregation.  Staging records one entry of             *)
(* missing_structure_files for every structure block whose file is at none *)
(* of the locations it searches and stages every other block; build_command*)
(* then raises one error whose message names every recorded file.          *)
(***************************************************************************)
\* the structure blocks of the staged configuration that name a file
RECURSIVE NamedFiles(_)
NamedFiles(structs) ==
    IF structs = <<>> THEN <<>>
    ELSE LET f == Get(Head(structs), "structure_file", PyNone)
         IN (IF f = PyNone \/ f.s = <<>> THEN <<>> ELSE <<f.s>>) \o NamedFiles(Tail(structs))

StagedNames == NamedFiles(Get(input_info.config, "structures", EmptyList).items)
Missing == input_info.missing_structure_files
InSeq(x, seq) == \E j \in 1..Len(seq) : seq[j] = x

C6_MissingAggregated ==
    Staged =>
      \* every block that names a file is either staged or recorded as missing
      /\ Len(StagedNames) = Len(input_info.structure_files) + Len(Missing)
      /\ \A i \in 1..Len(StagedNames) :
            \/ InSeq(StagedNames[i], Missing)
            \/ /\ PathOf(StagedNames[i]).dir = ""
               /\ InSeq([dir |-> workspace_path, base |-> StagedNames[i][1]],
                        input_info.structure_files)
      \* a recorded file was at none of the locations staging searches
      /\ \A j \in 1..Len(Missing) :
            FirstFile(fs0, SearchLocations(Missing[j],
                           SearchDirs(input_file # NoPath, workspace_path)), 1) = NoPath
      \* build_command raises one error that names every recorded file
      /\ (Missing # <<>> /\ rpc # "Staged")
            => /\ rpc = "Failed"
               /\ rerr.kind = "ValueError"
               /\ \A j \in 1..Len(Missing) : InSeq(Missing[j], rerr.msg)

\* two structure files that exist nowhere: two entries, one error naming both
C6_Witness ==
    /\ rpc = "Failed"
    /\ Missing = <<<<"/x/a.pdb">>, <<"b.pdb">>>>
    /\ input_info.structure_files = <<>>
    /\ rerr.kind = "ValueError"
    /\ InSeq(<<"/x/a.pdb">>, rerr.msg) /\ InSeq(<<"b.pdb">>, rerr.msg)

(***************************************************************************)
(* C7: whenever staging recorded a missing structure file, build_command   *)
(* raises before it selects or generates a dialect file and returns no     *)
(* command: no subprocess is launched.                                     *)
(***************************************************************************)
C7_NoLaunchWithMissing ==
    /\ [](Missing # <<>> =>
            /\ rpc \in {"Staged", "Failed"}
            /\ ~launched
            /\ cmd = <<>>
            /\ input_info.stdin_file = NoPath
            /\ input_info.final_input_file = NoPath)
    /\ [][(rpc = "Staged" /\ Missing # <<>>) =>
            /\ rpc' = "Failed"
            /\ rerr'.kind = "ValueError"
            /\ fs' = fs
            /\ input_info' = input_info]_vars

\* a run from an in-memory configuration with missing files: build_command
\* failed and generated no packmol.inp
C7_Witness ==
    /\ rpc = "Failed"
    /\ Missing # <<>>
    /\ input_file = NoPath
    /\ ~launched
    /\ ~fs[[dir |-> workspace_path, base |-> "packmol.inp"]].e

(***************************************************************************)
(* C8: validate_inputs raises the invalid-input error (ValueError) exactly *)
(* when neither input_file nor config_dict is given, or input_file is      *)
(* given and is no existing file, or update_dict is given and is no        *)
(* mapping, or config_dict is given and is no mapping; it then has         *)
(* created, copied or modified no file.                                    *)
(***************************************************************************)
InvalidArguments ==
    \/ (input_file = NoPath /\ config_dict = PyNone)
    \/ (input_file # NoPath /\ ~fs0[input_file].e)
    \/ (update_dict # PyNone /\ update_dict.t # "dict")
    \/ (config_dict # PyNone /\ config_dict.t # "dict")

ValidationFailed == rpc = "Failed" /\ ~Staged

C8_ValidateExactly ==
    rpc # "Unvalidated" =>
        /\ ValidationFailed <=> InvalidArguments
        /\ ValidationFailed => (rerr.kind = "ValueError" /\ fs = fs0)
        /\ ~ValidationFailed => (rpc = "Validated" => rerr = NoError)

\* an existing input file together with a config_dict that is a list
C8_Witness ==
    /\ ValidationFailed
    /\ input_file = SourceInput
    /\ update_dict = PyNone
    /\ config_dict = EmptyList
    /\ rerr.kind = "ValueError"
    /\ fs = fs0

(***************************************************************************)
(* C9: when the subprocess exits with a non-zero return code (it did not   *)
(* time out) and continue_on_error is not set, process_output raises the   *)
(* tool-execution error (RuntimeError) and returns no result, whatever     *)
(* stdout and stderr hold.                                                 *)
(***************************************************************************)
Processed == launched /\ rpc \in {"Succeeded", "TimedOut", "Failed"}

C9_NonZeroExitRaises ==
    (Processed /\ outcome = "exit" /\ return_code # 0 /\ ~continue_on_error)
        => (rerr.kind = "RuntimeError" /\ result = PyNone)

(***************************************************************************)
(* C10: the tool-execution error raised for a failed run carries the       *)
(* captured standard output and standard error of the subprocess.          *)
(***************************************************************************)
Carries(msg, str) ==
    Strip(str) # <<>> => \E i \in 1..Len(msg) : Contains(msg[i], Strip(str))

C10_ErrorCarriesOutput ==
    (Processed /\ rerr.kind = "RuntimeError")
        => /\ Carries(rerr.msg, stderr)
           /\ \A i \in 1..Len(stdout) : Carries(rerr.msg, stdout[i])

(***************************************************************************)
(* C11: timeout with partial output.  Whenever a run is classified as      *)
(* timed out and the declared output file exists in the workspace with     *)
(* non-zero size, process_output does not raise and returns a result with  *)
(* timed_out true whose output_files hold that file, with and without      *)
(* continue_on_error.                                                      *)
(***************************************************************************)
\* the output global option of the staged configuration, and the file it
\* names in the workspace when it is a bare name
DeclaredName == ExpectedOutput(Get(input_info.config, "global", EmptyDict).kv, 1)
DeclaredInWorkspace == [dir |-> workspace_path, base |-> PathOf(DeclaredName).base]
PartialOutputPresent ==
    /\ DeclaredName # <<>>
    /\ ~IsAbs(PathOf(DeclaredName))
    /\ IsFile(fs, DeclaredInWorkspace)
    /\ GetSize(fs, DeclaredInWorkspace) > 0

C11_TimeoutPartialOutput ==
    (Processed /\ IsTimeout(return_code, stderr) /\ PartialOutputPresent)
        => /\ rerr = NoError
           /\ result # PyNone
           /\ result.timed_out
           /\ InSeq(DeclaredInWorkspace, result.output_files)

\* a subprocess killed at the timeout that left a partial out.pdb, the caller
\* not having set continue_on_error
C11_Witness ==
    /\ rpc = "TimedOut"
    /\ outcome = "timeout"
    /\ ~continue_on_error
    /\ PartialOutputPresent
    /\ result.output_files = <<[dir |-> workspace_path, base |-> "out.pdb"]>>

(***************************************************************************)
(* C12: timeout without continue-on-timeout.  When a run times out and the *)
(* caller did not pass --continue-on-timeout, the packmol command returns  *)
(* exit code 1 (or the runner raised) and copies no partial output file to *)
(* the output directory, even when a non-empty partial output was found.   *)
(***************************************************************************)
TimedOutRun ==
    launched /\ (outcome = "timeout" \/ (result # PyNone /\ result.timed_out))

C12_TimeoutIsTerminal ==
    (returned /\ TimedOutRun /\ ~continue_on_timeout)
        => /\ exit_code = 1
           /\ copied = <<>>

\* the subprocess was killed at the timeout and a non-empty partial output
\* file was found
C12_Witness ==
    /\ returned
    /\ outcome = "timeout"
    /\ ~continue_on_timeout
    /\ result # PyNone
    /\ result.output_files # <<>>
    /\ GetSize(fs, result.output_files[1]) > 0
    /\ exit_code = 1
    /\ copied = <<>>

(***************************************************************************)
(* C13: after staging, every structure block of the Configuration has a    *)
(* structure_file that is the bare base name of a file present in the      *)
(* workspace directory.                                                    *)
(***************************************************************************)
StagedBlocks == Get(input_info.config, "structures", EmptyList).items

\* the block names, by a bare base name, a file of the workspace
InWorkspace(block) ==
    LET f == Get(block, "structure_file", PyNone)
    IN /\ f # PyNone
       /\ f.s # <<>>
       /\ ~IsAbs(PathOf(f.s))
       /\ IsFile(fs, [dir |-> workspace_path, base |-> PathOf(f.s).base])

C13_AllBlocksInWorkspace ==
    Staged => \A i \in 1..Len(StagedBlocks) : InWorkspace(StagedBlocks[i])

(***************************************************************************)
(* C13, amended: after staging, every structure block that names a file    *)
(* staging found (a file it did not record in missing_structure_files) has *)
(* a structure_file that is the bare base name of a file present in the    *)
(* workspace, and that file is listed in structure_files; a block whose    *)
(* file was found nowhere keeps the structure_file it was given.           *)
(***************************************************************************)
NamesFile(block) ==
    LET f == Get(block, "structure_file", PyNone)
    IN f # PyNone /\ f.s # <<>>

C13_FoundBlocksInWorkspace ==
    Staged =>
      \A i \in 1..Len(StagedBlocks) :
         (NamesFile(StagedBlocks[i])
            /\ ~InSeq(Get(StagedBlocks[i], "structure_file", PyNone).s, Missing))
         => /\ InWorkspace(StagedBlocks[i])
            /\ InSeq([dir |-> workspace_path,
                      base |-> PathOf(Get(StagedBlocks[i], "structure_file", PyNone).s).base],
                     input_info.structure_files)

\* a file given by an absolute path outside the workspace was found and its
\* block rewritten, while the file of another block was found nowhere
C13_Witness ==
    /\ rpc = "Staged"
    /\ workspace_path = "/ws"
    /\ Len(StagedBlocks) = 2
    /\ Get(StagedBlocks[1], "structure_file", PyNone) = PyStr(<<"a.pdb">>)
    /\ fs[[dir |-> "/ws", base |-> "a.pdb"]] = fs0[[dir |-> "/x", base |-> "a.pdb"]]
    /\ fs0[[dir |-> "/x", base |-> "a.pdb"]].e
    /\ Missing = <<<<"b.pdb">>>>
    /\ Get(StagedBlocks[2], "structure_file", PyNone) = PyStr(<<"b.pdb">>)

(***************************************************************************)
(* C14: output discovery order.  When the file the `output` global option  *)
(* names exists (relative to the workspace, or as an absolute path) it is  *)
(* the located output file, whatever stdout says; the first `Output file:` *)
(* line of stdout is consulted only when no declared output file exists,   *)
(* and what follows the marker is resolved against the workspace unless it *)
(* is absolute.                                                            *)
(***************************************************************************)
\* where the declared output is looked for (an absolute name is itself)
DeclaredPath ==
    IF DeclaredName = <<>> THEN NoPath
    ELSE IF IsAbs(PathOf(DeclaredName)) THEN PathOf(DeclaredName)
    ELSE [dir |-> workspace_path, base |-> PathOf(DeclaredName).base]
DeclaredExists == DeclaredPath # NoPath /\ IsFile(fs, DeclaredPath)

MarkerLines == {i \in 1..Len(stdout) : Contains(stdout[i], <<"Output", SP, "file:">>)}
FirstMarker == CHOOSE i \in MarkerLines : \A j \in MarkerLines : i <= j
MarkedPath ==
    LET r == AfterColon(stdout[FirstMarker])
    IN IF r = <<>> THEN [dir |-> workspace_path, base |-> ""]
       ELSE IF IsAbs(PathOf(r)) THEN PathOf(r)
       ELSE [dir |-> workspace_path, base |-> PathOf(r).base]

C14_OutputDiscoveryOrder ==
    (Processed /\ result # PyNone)
        => result.output_file =
              IF DeclaredExists THEN DeclaredPath
              ELSE IF MarkerLines = {} THEN NoPath
              ELSE MarkedPath

\* the declared out.pdb and other.pdb both exist in the workspace and stdout
\* names other.pdb: the declared file is the located one
C14_Witness ==
    /\ Processed
    /\ result # PyNone
    /\ DeclaredExists
    /\ MarkerLines # {}
    /\ MarkedPath = [dir |-> workspace_path, base |-> "other.pdb"]
    /\ IsFile(fs, MarkedPath)
    /\ result.output_file = [dir |-> workspace_path, base |-> "out.pdb"]

(***************************************************************************)
(* C15: on a run that is not a timeout and for which continue_on_error is  *)
(* not set, a located output file that exists with size zero is not        *)
(* reported: output_files of the returned result is empty.                 *)
(***************************************************************************)
\* process_output returned a result whose located output file is an empty file
EmptyOutputLocated ==
    /\ Processed
    /\ result # PyNone
    /\ result.output_file # NoPath
    /\ IsFile(fs, result.output_file)
    /\ GetSize(fs, result.output_file) = 0

CommandBuilt == cmd # <<>>

C16_DialectFileOnStdin ==
    CommandBuilt =>
        /\ cmd = <<"packmol">>
                 \o (IF has_timeout THEN <<"-t", ToString(DefaultTimeout)>> ELSE <<>>)
        /\ input_info.stdin_file # NoPath
        /\ input_info.stdin_file = input_info.final_input_file
        /\ \A i \in 1..Len(cmd) : cmd[i] # input_info.stdin_file.base

\* a command with the timeout pair, the staged input file recorded as stdin
C16_Witness ==
    /\ rpc = "Built"
    /\ has_timeout
    /\ cmd = <<"packmol", "-t", "900">>
    /\ input_info.stdin_file = [dir |-> workspace_path, base |-> "test.inp"]
    /\ IsFile(fs, input_info.stdin_file)

(***************************************************************************)
(* C17: merging is free of side effects.  After merge(base, updates) the   *)
(* mapping passed as base is as it was before the call; the merged         *)
(* Configuration is a separate value.                                      *)
(***************************************************************************)
C17_MergeLeavesBase == mpc = "merged" => base = base0

(***************************************************************************)
(* Two runner invocations that execute concurrently, each with its own     *)
(* workspace directory, over one file system.                              *)
(***************************************************************************)
Invocations == {1, 2}
Workspaces == {"/ws", "/in", "/x"}

\* the arguments of an invocation: [input_file, config_dict, update_dict,
\* output_file]
PairCalls ==
    { [input_file |-> SourceInput, config_dict |-> PyNone,
       update_dict |-> PyNone, output_file |-> NoPath],
      [input_file |-> SourceInput, config_dict |-> PyNone,
       update_dict |-> UpdateOutput, output_file |-> NoPath],
      [input_file |-> NoPath, config_dict |-> ParsePackmolText(RunText1).val,
       update_dict |-> PyNone, output_file |-> RequestedOutput],
      [input_file |-> NoPath, config_dict |-> ParsePackmolText(RunText2).val,
       update_dict |-> PyNone, output_file |-> NoPath] }

\* the paths whose file differs between two file systems
Changed(f, g) == {p \in FsPaths : f[p] # g[p]}

\* the files prepare_inputs and build_command opened for writing
WriteTargets(info) ==
    ({info.input_file, info.output_file, info.stdin_file}
        \cup {info.structure_files[j] : j \in 1..Len(info.structure_files)})
    \ {NoPath}

InitPair ==
    /\ pfs = InitialFs(RunText1, {"/cwd"}, {"/in"})
    /\ \E w \in [Invocations -> Workspaces], c \in [Invocations -> PairCalls] :
          /\ w[1] # w[2]
          /\ runs = [i \in Invocations |->
                        [pc |-> "Unvalidated",
                         workspace_path |-> w[i],
                         input_file |-> c[i].input_file,
                         config_dict |-> c[i].config_dict,
                         update_dict |-> c[i].update_dict,
                         output_file |-> c[i].output_file,
                         input_info |-> NoInfo,
                         written |-> {},
                         staged |-> <<>>,
                         stdin |-> <<>>]]
    /\ ParseOff
    /\ MergeOff
    /\ RunOff
    /\ DirsOff

PairValidate(i) ==
    /\ runs[i].pc = "Unvalidated"
    /\ LET r == runs[i]
           e == ValidateInputs(pfs, r.input_file, r.config_dict, r.update_dict)
       IN runs' = [runs EXCEPT ![i].pc = IF e = NoError THEN "Validated" ELSE "Failed"]
    /\ UNCHANGED pfs
    /\ UNCHANGED outsidePair

PairStage(i) ==
    /\ runs[i].pc = "Validated"
    /\ \E s \in {PrepareInputs(pfs, runs[i].workspace_path, runs[i].input_file,
                               runs[i].output_file, runs[i].config_dict,
                               runs[i].update_dict)} :
          /\ pfs' = s.fs
          /\ runs' = [runs EXCEPT
                         ![i].pc = "Staged",
                         ![i].input_info = s.info,
                         ![i].config_dict =
                             IF runs[i].input_file = NoPath THEN s.info.config ELSE @,
                         ![i].written = @ \cup Changed(pfs, s.fs) \cup WriteTargets(s.info)]
    /\ UNCHANGED outsidePair

PairBuild(i) ==
    /\ runs[i].pc = "Staged"
    /\ \E b \in {BuildCommand(pfs, runs[i].input_info, TRUE, DefaultTimeout)} :
          /\ pfs' = b.fs
          /\ runs' = [runs EXCEPT
                         ![i].pc = IF b.err = NoError THEN "Built" ELSE "Failed",
                         ![i].input_info = b.info,
                         ![i].written = @ \cup Changed(pfs, b.fs) \cup WriteTargets(b.info),
                         ![i].staged = IF b.err = NoError
                                       THEN b.fs[b.info.stdin_file].d ELSE @]
    /\ UNCHANGED outsidePair

\* the subprocess of invocation i starts and reads its standard input
PairLaunch(i) ==
    /\ runs[i].pc = "Built"
    /\ runs' = [runs EXCEPT ![i].pc = "Executing",
                            ![i].stdin = pfs[runs[i].input_info.stdin_file].d]
    /\ UNCHANGED pfs
    /\ UNCHANGED outsidePair

NextPair ==
    \E i \in Invocations :
        PairValidate(i) \/ PairStage(i) \/ PairBuild(i) \/ PairLaunch(i)

SpecPair == InitPair /\ [][NextPair]_vars

(***************************************************************************)
(* C18: every file staging and command building write lies directly in    *)
(* the workspace of the invocation, so two concurrent invocations with     *)
(* distinct workspaces never write the same path, and the standard-input   *)
(* file of each holds exactly what that invocation staged.                 *)
(***************************************************************************)
C18_WorkspaceIsolation ==
    runs # <<>> =>
        /\ \A i \in Invocations :
              \A p \in runs[i].written : p.dir = runs[i].workspace_path
        /\ runs[1].written \cap runs[2].written = {}
        /\ \A i \in Invocations :
              runs[i].pc = "Executing" => runs[i].stdin = runs[i].staged

\* both invocations generated a packmol.inp, each in its own workspace, and
\* each subprocess read the one of its invocation
C18_Witness ==
    /\ runs # <<>>
    /\ \A i \in Invocations :
          /\ runs[i].pc = "Executing"
          /\ runs[i].input_info.stdin_file =
                [dir |-> runs[i].workspace_path, base |-> "packmol.inp"]
          /\ runs[i].stdin # <<>>
    /\ runs[1].stdin # runs[2].stdin

(***************************************************************************)
(* C19: for every well-formed input (global lines, then structure blocks   *)
(* closed by `end structure` that hold property lines and inside/outside   *)
(* lines), the end-to-end sample among them: each global line maps its     *)
(* first token to the list of its remaining tokens, each `structure <file>`*)
(* block yields one structure with that file, each property line maps its  *)
(* key to its remaining tokens, and each inside/outside line with at least *)
(* two tokens yields a constraint with keyword = first token, block =      *)
(* second token and params = the remaining tokens in order.                *)
(***************************************************************************)
\* the lines that count: stripped, neither blank nor a comment
SourceLines ==
    SelectSeq([i \in 1..Len(text) |-> Strip(text[i])],
              LAMBDA l : l # <<>> /\ ~StartsWithHash(l))

\* what a line is, by its tokens
Kind(l) ==
    LET first == LowerWord(Split(l)[1][1])
        n == Len(Split(l))
    IN IF first = "structure" THEN (IF n >= 2 THEN "structure" ELSE "malformed")
       ELSE IF first = "end"
       THEN (IF Lower(l) = <<"end", SP, "structure">> THEN "end" ELSE "malformed")
       ELSE IF first \in {"inside", "outside"}
       THEN (IF n >= 2 THEN "constraint" ELSE "malformed")
       ELSE IF first \in AtomsWords THEN "atoms"
       ELSE "property"

\* the lines from i on are structure blocks, each closed by `end structure`
RECURSIVE BlocksFrom(_, _)
BlocksFrom(L, i) ==
    IF i > Len(L) THEN TRUE
    ELSE /\ Kind(L[i]) = "structure"
         /\ \E e \in (i + 1)..Len(L) :
               /\ Kind(L[e]) = "end"
               /\ \A j \in (i + 1)..(e - 1) : Kind(L[j]) \in {"property", "constraint"}
               /\ BlocksFrom(L, e + 1)

GlobalCount(L) == Cardinality({i \in 1..Len(L) : \A j \in 1..i : Kind(L[j]) = "property"})
WellFormed(L) == BlocksFrom(L, GlobalCount(L) + 1)

\* the key of a line, and its remaining tokens as a list of str
KeyOf(l) == Split(l)[1][1]
RestOf(l) == StrList(Tail(Split(l)))

\* a mapping holds what the lines at the indices I say, the last line of a
\* key deciding
MapsLines(m, L, I) ==
    /\ Keys(m) = {KeyOf(L[i]) : i \in I}
    /\ \A i \in I :
          (\A j \in I : KeyOf(L[j]) = KeyOf(L[i]) => j <= i)
              => Get(m, KeyOf(L[i]), PyNone) = RestOf(L[i])

\* the k-th index, in increasing order, of a set of indices
Nth(I, k) == CHOOSE i \in I : Cardinality({j \in I : j < i}) = k - 1

\* structure block b of the Configuration is what the block opened at line
\* s and closed at line e says
BlockIs(b, L, s, e) ==
    LET inner == (s + 1)..(e - 1)
        cons == {i \in inner : Kind(L[i]) = "constraint"}
        cs == Get(b, "constraints", PyNone).items
    IN /\ Get(b, "structure_file", PyNone) = PyStr(Split(L[s])[2])
       /\ MapsLines(Get(b, "properties", PyNone), L,
                    {i \in inner : Kind(L[i]) = "property"})
       /\ Len(cs) = Cardinality(cons)
       /\ \A k \in 1..Len(cs) :
             LET t == Split(L[Nth(cons, k)])
             IN /\ Get(cs[k], "keyword", PyNone) = PyStr(t[1])
                /\ Get(cs[k], "block", PyNone) = PyStr(t[2])
                /\ Get(cs[k], "params", PyNone) = StrList(SubSeq(t, 3, Len(t)))
       /\ Get(b, "others", PyNone) = EmptyList

ParsedAsWritten(cfg, L) ==
    LET starts == {i \in 1..Len(L) : Kind(L[i]) = "structure"}
        ends == {i \in 1..Len(L) : Kind(L[i]) = "end"}
        structs == Get(cfg, "structures", PyNone).items
    IN /\ MapsLines(Get(cfg, "global", PyNone), L, 1..GlobalCount(L))
       /\ Len(structs) = Cardinality(starts)
       /\ \A k \in 1..Len(structs) :
             BlockIs(structs[k], L, Nth(starts, k), Nth(ends, k))

C19_ParsedAsWritten ==
    (ppc # "start" /\ ppc # "off" /\ WellFormed(SourceLines))
        => /\ parsed.err = NoErr
           /\ ParsedAsWritten(parsed.val, SourceLines)

\* the end-to-end sample and the Configuration the tests expect for it
C19_Witness ==
    /\ ppc = "parsed"
    /\ text = SampleText
    /\ WellFormed(SourceLines)
    /\ parsed.val =
         PyDict(<<
           Pair("global", PyDict(<<Pair("tolerance", Tokens(<<"2.0">>)),
                                   Pair("filetype", Tokens(<<"pdb">>)),
                                   Pair("output", Tokens(<<"test_output.pdb">>))>>)),
           Pair("structures", PyList(<<
             PyDict(<<Pair("structure_file", PyStr(<<"molecule.pdb">>)),
                      Pair("properties", PyDict(<<Pair("number", Tokens(<<"10">>))>>)),
                      Pair("constraints", PyList(<<
                         PyDict(<<Pair("keyword", PyStr(<<"inside">>)),
                                  Pair("block", PyStr(<<"box">>)),
                                  Pair("params",
                                       Tokens(<<"0.", "0.", "0.", "30.", "30.", "30.">>))>>)>>)),
                      Pair("others", EmptyList)>>)>>))>>)

(***************************************************************************)
(* C20: on a timed-out run a located output file is exposed in             *)
(* output_files only if it has non-zero size: a zero-size file found after *)
(* a timeout is not reported as a partial result.                          *)
(***************************************************************************)
C20_PartialOutputNonEmpty ==
    (Processed /\ outcome = "timeout" /\ result # PyNone /\ result.timed_out)
        => \A j \in 1..Len(result.output_files) :
              GetSize(fs, result.output_files[j]) > 0

(***************************************************************************)
(* The reading of an input the dialect prescribes, line by line: what each *)
(* line that counts is (a global option, the opening of a block, a         *)
(* property, a constraint, ...), with keywords taken in any letter case.   *)
(***************************************************************************)
FirstLower(l) == LowerWord(Split(l)[1][1])
OpensStructure(l) == FirstLower(l) = "structure" /\ Len(Split(l)) >= 2

RoleOf(l, mode) ==
    IF mode \in {"global", "between"} THEN
        IF OpensStructure(l) THEN "open"
        ELSE IF mode = "global" THEN "global" ELSE "skipped"
    ELSE IF mode = "atoms" THEN
        IF Lower(l) = <<"end", SP, "atoms">> THEN "end atoms" ELSE "raw"
    ELSE IF Lower(l) = <<"end", SP, "structure">> THEN "end structure"
    ELSE IF FirstLower(l) \in AtomsWords THEN "atoms"
    ELSE IF FirstLower(l) \in {"inside", "outside"}
    THEN (IF Len(Split(l)) >= 2 THEN "constraint" ELSE "other")
    ELSE "property"

ModeAfter(mode, role) ==
    CASE role = "open" -> "block"
      [] role = "end structure" -> "between"
      [] role = "atoms" -> "atoms"
      [] role = "end atoms" -> "block"
      [] OTHER -> mode

\* the reading of the lines from i on: for each line its role and the
\* number of the block it belongs to (0: before every block)
RECURSIVE ReadFrom(_, _, _, _)
ReadFrom(L, i, mode, blk) ==
    IF i > Len(L) THEN <<>>
    ELSE LET role == RoleOf(L[i], mode)
             b == IF role = "open" THEN blk + 1 ELSE blk
         IN <<[role |-> role, blk |-> b]>> \o ReadFrom(L, i + 1, ModeAfter(mode, role), b)

Reading(L) == ReadFrom(L, 1, "global", 0)

\* the lines of role r in the k-th block, in the reading rd
LinesOf(rd, r, k) == {i \in 1..Len(rd) : rd[i].role = r /\ rd[i].blk = k}
Opened(rd) == {i \in 1..Len(rd) : rd[i].role = "open"}

ParseDone == ppc # "start" /\ ppc # "off"

(***************************************************************************)
(* C21: in the global options and in the properties of a block the tokens  *)
(* of the last line of a key are the stored value, keys that differ in     *)
(* letter case only are distinct entries, and the block keywords           *)
(* (structure, end structure, atoms, end atoms, inside, outside) are       *)
(* recognised in any letter case: the Configuration has one block per      *)
(* opening line, and each block one constraint per inside/outside or atoms *)
(* line, whatever the case these are written in.                           *)
(***************************************************************************)
C21_LastWinsKeywordsAnyCase ==
    ParseDone =>
        /\ parsed.err = NoErr
        /\ \A L \in {SourceLines} : \A rd \in {Reading(L)} :
           LET structs == Get(parsed.val, "structures", PyNone).items
           IN /\ MapsLines(Get(parsed.val, "global", PyNone), L, LinesOf(rd, "global", 0))
              /\ Len(structs) = Cardinality(Opened(rd))
              /\ \A k \in 1..Len(structs) :
                    /\ MapsLines(Get(structs[k], "properties", PyNone), L,
                                 LinesOf(rd, "property", k))
                    /\ Len(Get(structs[k], "constraints", PyNone).items)
                          = Cardinality(LinesOf(rd, "constraint", k)
                                        \cup LinesOf(rd, "atoms", k))

C21_Witness ==
    /\ ppc = "parsed"
    /\ text = KeywordText
    /\ LET g == Get(parsed.val, "global", PyNone)
           structs == Get(parsed.val, "structures", PyNone).items
           p == Get(structs[1], "properties", PyNone)
       IN /\ Get(g, "number", PyNone) = Tokens(<<"20">>)
          /\ Get(g, "Number", PyNone) = Tokens(<<>>)
          /\ Len(structs) = 2
          /\ Get(p, "number", PyNone) = Tokens(<<"20">>)
          /\ Get(p, "Number", PyNone) = Tokens(<<>>)
          /\ Len(Get(structs[1], "constraints", PyNone).items) = 2
          /\ Len(Get(structs[2], "constraints", PyNone).items) = 1

(***************************************************************************)
(* C22: a structure block, or an atoms block nested in it, that the end of *)
(* the input leaves open causes no error: parsing returns, and the open    *)
(* block is the last element of structures, holding everything its lines   *)
(* say up to the end of the input (file, properties, constraints with the  *)
(* raw lines of an atoms block, other lines).                              *)
(***************************************************************************)
\* the block opened last is not closed
LastBlockOpen(rd) ==
    /\ Opened(rd) # {}
    /\ \A i \in 1..Len(rd) :
          rd[i].role = "end structure" => \E j \in (i + 1)..Len(rd) : rd[j].role = "open"
\* and neither is an atoms block in it
AtomsOpen(rd) == rd # <<>> /\ rd[Len(rd)].role \in {"atoms", "raw"}

\* the raw lines that follow the atoms line i
RawAfter(L, rd, i) ==
    LET n == Cardinality({j \in (i + 1)..Len(L) :
                             \A m \in (i + 1)..j : rd[m].role = "raw"})
    IN PyList([m \in 1..n |-> PyStr(L[i + m])])

\* constraint c is what line i says
ConstraintIs(c, L, rd, i) ==
    LET t == Split(L[i]) IN
    IF rd[i].role = "constraint"
    THEN /\ Get(c, "keyword", PyNone) = PyStr(t[1])
         /\ Get(c, "block", PyNone) = PyStr(t[2])
         /\ Get(c, "params", PyNone) = StrList(SubSeq(t, 3, Len(t)))
    ELSE /\ Get(c, "keyword", PyNone) = PyStr(<<"atoms">>)
         /\ Get(Get(c, "data", PyNone), "atoms", PyNone) = RestOf(L[i])
         /\ Get(Get(c, "data", PyNone), "constraints", PyNone) = RawAfter(L, rd, i)

\* block b holds everything the lines of the k-th block say
BlockHolds(b, L, rd, k) ==
    \A cons \in {LinesOf(rd, "constraint", k) \cup LinesOf(rd, "atoms", k)} :
    \A oth \in {LinesOf(rd, "other", k)} :
    LET cs == Get(b, "constraints", PyNone).items
        os == Get(b, "others", PyNone).items
    IN /\ \A i \in LinesOf(rd, "open", k) :
             Get(b, "structure_file", PyNone) = PyStr(Split(L[i])[2])
       /\ MapsLines(Get(b, "properties", PyNone), L, LinesOf(rd, "property", k))
       /\ Len(cs) = Cardinality(cons)
       /\ \A n \in 1..Len(cs) : ConstraintIs(cs[n], L, rd, Nth(cons, n))
       /\ Len(os) = Cardinality(oth)
       /\ \A n \in 1..Len(os) : os[n] = PyStr(L[Nth(oth, n)])

C22_OpenBlockKept ==
    ParseDone =>
        \A L \in {SourceLines} : \A rd \in {Reading(L)} :
            LastBlockOpen(rd) =>
                /\ parsed.err = NoErr
                /\ LET structs == Get(parsed.val, "structures", PyNone).items
                   IN /\ Len(structs) = Cardinality(Opened(rd))
                      /\ BlockHolds(structs[Len(structs)], L, rd, Len(structs))

\* an input that ends inside an atoms block
C22_Witness ==
    /\ ppc = "parsed"
    /\ text = << <<"structure", SP, "a.pdb">>, <<"Atoms", SP, "1", SP, "2">>,
                 <<"number", SP, "20", SP>> >>
    /\ LastBlockOpen(Reading(SourceLines))
    /\ AtomsOpen(Reading(SourceLines))
    /\ parsed.val =
         PyDict(<<
           Pair("global", EmptyDict),
           Pair("structures", PyList(<<
             PyDict(<<Pair("structure_file", PyStr(<<"a.pdb">>)),
                      Pair("properties", EmptyDict),
                      Pair("constraints", PyList(<<
                         PyDict(<<Pair("keyword", PyStr(<<"atoms">>)),
                                  Pair("data", PyDict(<<
                                     Pair("atoms", Tokens(<<"1", "2">>)),
                                     Pair("constraints",
                                          PyList(<<PyStr(<<"number", SP, "20">>)>>))>>))>>)>>)),
                      Pair("others", EmptyList)>>)>>))>>)

(***************************************************************************)
(* C28: the Configuration has exactly one structure block per              *)
(* `structure <file>` line of the input without its comments, in file      *)
(* order: the files of the blocks are the files of those lines.            *)
(***************************************************************************)
StructureLines(L) == {i \in 1..Len(L) : OpensStructure(L[i])}

C28_OneBlockPerStructureLine ==
    (ParseDone /\ parsed.err = NoErr) =>
        LET L == SourceLines
            structs == Get(parsed.val, "structures", PyNone).items
        IN /\ Len(structs) = Cardinality(StructureLines(L))
           /\ \A k \in 1..Len(structs) :
                 Get(structs[k], "structure_file", PyNone)
                    = PyStr(Split(L[Nth(StructureLines(L), k)])[2])

(***************************************************************************)
(* C29: parsing loses no content.  Every token of every line that is       *)
(* neither blank, a comment nor a delimiter (`end structure`, `end atoms`) *)
(* is in the Configuration (as a global option, a structure_file, a        *)
(* property, a constraint, an atoms entry or an others line), the keyword  *)
(* that opens a structure or an atoms block aside.                         *)
(***************************************************************************)
WordsOfStr(str) == {str[i] : i \in 1..Len(str)} \ {SP}
WordsOfList(lst) == UNION {WordsOfStr(lst.items[i].s) : i \in 1..Len(lst.items)}
WordsOfMap(m) == Keys(m) \cup UNION {WordsOfList(m.kv[i].v) : i \in 1..Len(m.kv)}
WordsOfConstraint(c) ==
    IF HasKey(c, "data")
    THEN WordsOfList(Get(Get(c, "data", PyNone), "atoms", PyNone))
         \cup WordsOfList(Get(Get(c, "data", PyNone), "constraints", PyNone))
    ELSE WordsOfStr(Get(c, "keyword", PyNone).s) \cup WordsOfStr(Get(c, "block", PyNone).s)
         \cup WordsOfList(Get(c, "params", PyNone))
WordsOfBlock(b) ==
    WordsOfStr(Get(b, "structure_file", PyNone).s)
    \cup WordsOfMap(Get(b, "properties", PyNone))
    \cup UNION {WordsOfConstraint(Get(b, "constraints", PyNone).items[i]) :
                   i \in 1..Len(Get(b, "constraints", PyNone).items)}
    \cup WordsOfList(Get(b, "others", PyNone))
WordsOfConfig(cfg) ==
    WordsOfMap(Get(cfg, "global", PyNone))
    \cup UNION {WordsOfBlock(Get(cfg, "structures", PyNone).items[i]) :
                   i \in 1..Len(Get(cfg, "structures", PyNone).items)}

\* the tokens of a line that are content
ContentTokens(l) ==
    IF Lower(l) \in {<<"end", SP, "structure">>, <<"end", SP, "atoms">>} THEN {}
    ELSE IF OpensStructure(l) \/ FirstLower(l) \in AtomsWords
    THEN WordsOfStr(l) \ {Split(l)[1][1]}
    ELSE WordsOfStr(l)

C29_NoContentLost ==
    (ParseDone /\ parsed.err = NoErr) =>
        \A i \in 1..Len(SourceLines) :
            ContentTokens(SourceLines[i]) \subseteq WordsOfConfig(parsed.val)

(***************************************************************************)
(* C23: whenever the packmol command ends with a non-zero exit code, the   *)
(* session workspace is kept: keep_session_workspace is true when          *)
(* cleanup_session runs, and the workspace is not removed.                 *)
(***************************************************************************)
C23_FailureKeepsWorkspace ==
    (returned /\ exit_code # 0)
        => /\ keep_session_workspace
           /\ session_workspace # "removed"

(***************************************************************************)
(* The source files of a staging: the file each block of the caller's      *)
(* Configuration resolves to among the files that exist before staging.    *)
(***************************************************************************)
\* staging got the blocks as the source text writes them: no update, and
\* the input file was not copied onto itself
BlocksAsWritten ==
    /\ update_dict = PyNone
    /\ input_file # NoPath => AbsPath(input_file) # WorkspaceFile(workspace_path, input_file)

\* the file the i-th block resolves to, NoPath when it is found nowhere
Resolved(i) ==
    LET name == Get(SourceBlocks[i], "structure_file", PyNone).s
    IN IF name = <<>> THEN NoPath
       ELSE LET found == FirstFile(fs0, SearchLocations(name,
                                   SearchDirs(input_file # NoPath, workspace_path)), 1)
            IN IF found = NoPath THEN NoPath ELSE AbsPath(found)

(***************************************************************************)
(* C24: staging never modifies the caller's source files.  After           *)
(* prepare_inputs the source input file and every structure file that was  *)
(* located hold what they held before, also when the workspace is the      *)
(* directory that contains them.                                           *)
(***************************************************************************)
C24_SourcesUnchanged ==
    rpc = "Staged" =>
        /\ input_file # NoPath => fs[AbsPath(input_file)] = fs0[AbsPath(input_file)]
        /\ BlocksAsWritten =>
              \A i \in 1..Len(SourceBlocks) :
                  Resolved(i) # NoPath => fs[Resolved(i)] = fs0[Resolved(i)]

(***************************************************************************)
(* C25: the dialect file selected as the standard input of the process     *)
(* agrees with the Configuration returned to the caller: block by block,   *)
(* the text names the structure file by the workspace-local base name the  *)
(* block's structure_file holds.                                           *)
(***************************************************************************)
StdinBlocks ==
    Get(ParsePackmolText(fs[input_info.stdin_file].d).val, "structures", EmptyList).items

C25_StdinAgreesWithConfig ==
    rpc = "Built" =>
        NamedFiles(StdinBlocks)
            = NamedFiles(Get(input_info.config, "structures", EmptyList).items)

(***************************************************************************)
(* C26: staging keeps distinct structure files distinct.  Two blocks that  *)
(* resolve to different source files name, after staging, two different    *)
(* workspace files, each holding what its own source held.                 *)
(***************************************************************************)
\* the workspace file the i-th block names after staging
StagedFile(i) ==
    [dir |-> workspace_path,
     base |-> Get(Get(input_info.config, "structures", EmptyList).items[i],
                  "structure_file", PyNone).s[1]]

C26_DistinctFilesStayDistinct ==
    (rpc = "Staged" /\ BlocksAsWritten) =>
        \A i, j \in 1..Len(SourceBlocks) :
            (i < j /\ Resolved(i) # NoPath /\ Resolved(j) # NoPath
                   /\ Resolved(i) # Resolved(j))
                => /\ StagedFile(i) # StagedFile(j)
                   /\ fs[StagedFile(i)] = fs0[Resolved(i)]
                   /\ fs[StagedFile(j)] = fs0[Resolved(j)]

(***************************************************************************)
(* C27: in every result process_output returns, output_file is either      *)
(* absent or names a file that exists and is listed in output_files; an    *)
(* empty output_files goes with no output_file.                            *)
(***************************************************************************)
C27_OutputFileListed ==
    (Processed /\ result # PyNone) =>
        \/ result.output_file = NoPath
        \/ /\ IsFile(fs, result.output_file)
           /\ InSeq(result.output_file, result.output_files)

(***************************************************************************)
(* Two commands started with the same --output-dir choose their output     *)
(* directory (PackmolCommand.execute, BaseCommand.setup_output_directory   *)
(* and main of cli.py hold the same loop).  Each test of os.path.exists    *)
(* and the call of os.makedirs is one step; the two commands are processes *)
(* of their own and interleave.                                            *)
(***************************************************************************)
\* the directories <base>, <base>_1, ... that may exist beforehand
MaxExisting == 3

InitDirs ==
    /\ existing \in SUBSET (0..(MaxExisting - 1))
    /\ cmds = [i \in Invocations |-> [pc |-> "check", output_dir |-> 0, counter |-> 1]]
    /\ ParseOff
    /\ MergeOff
    /\ RunOff
    /\ PairOff

\* while os.path.exists(output_dir):
\*     output_dir = f"{base_output_dir}_{counter}"; counter += 1
TestExists(i) ==
    /\ cmds[i].pc = "check"
    /\ cmds' = [cmds EXCEPT ![i] =
                   IF cmds[i].output_dir \in existing
                   THEN [pc |-> "check", output_dir |-> cmds[i].counter,
                         counter |-> cmds[i].counter + 1]
                   ELSE [cmds[i] EXCEPT !.pc = "make"]]
    /\ UNCHANGED existing
    /\ UNCHANGED outsideDirs

\* os.makedirs(output_dir, exist_ok=True): no error when the directory is there
MakeDirs(i) ==
    /\ cmds[i].pc = "make"
    /\ existing' = existing \cup {cmds[i].output_dir}
    /\ cmds' = [cmds EXCEPT ![i].pc = "using"]
    /\ UNCHANGED outsideDirs

NextDirs == \E i \in Invocations : TestExists(i) \/ MakeDirs(i)

SpecDirs == InitDirs /\ [][NextDirs]_vars

(***************************************************************************)
(* C30: two commands that run concurrently with the same base output       *)
(* directory never use the same output directory.                          *)
(***************************************************************************)
C30_DistinctOutputDirs ==
    \A i, j \in DOMAIN cmds :
        (i # j /\ cmds[i].pc = "using" /\ cmds[j].pc = "using")
            => cmds[i].output_dir # cmds[j].output_dir

====
